---- MODULE Spec2Model ----
(***************************************************************************)
(* The generic FHIR resource store of shared/base_service.py and the REST  *)
(* handlers of create_fhir_app, as a state machine.                        *)
(*                                                                         *)
(* A request handler is a coroutine: it runs from one suspension point to  *)
(* the next as one step.  The database is a separate PostgreSQL server    *)
(* that any number of worker processes of the service share, and the code  *)
(* takes no row lock and declares no version column, so the read and the   *)
(* write of update_resource / delete_resource are two statements of one    *)
(* READ COMMITTED transaction that other transactions may run between.     *)
(***************************************************************************)
EXTENDS Integers, Sequences, FiniteSets, TLC

(* ------------------------------------------------------------------ *)
(* Bounds                                                               *)
(* ------------------------------------------------------------------ *)

\* Requests accepted in one behaviour (caps versions, events and uuids).
MaxOps == 3

\* Concurrent request handlers (tasks / worker processes).
Procs == {1, 2}

(* ------------------------------------------------------------------ *)
(* Configuration of the service                                         *)
(* ------------------------------------------------------------------ *)

service_name == "ehr"

\* SUPPORTED_RESOURCES of each clinical service
Catalogue ==
    [ehr |-> {"Patient", "Practitioner", "PractitionerRole", "Organization",
              "Encounter", "Condition", "AllergyIntolerance", "Procedure",
              "CarePlan", "CareTeam", "DocumentReference", "Observation"},
     lis |-> {"Patient", "ServiceRequest", "Specimen", "Observation",
              "DiagnosticReport", "Task"},
     ris |-> {"Patient", "ServiceRequest", "Appointment", "ImagingStudy",
              "DiagnosticReport", "Observation", "Task"},
     pharmacy |-> {"Medication", "MedicationRequest", "MedicationDispense",
                   "MedicationAdministration", "MedicationStatement"},
     pas |-> {"Patient", "Encounter", "Appointment", "Schedule", "Slot",
              "Location", "EpisodeOfCare"},
     billing |-> {"Patient", "Coverage", "Claim", "ClaimResponse",
                  "ExplanationOfBenefit", "Account", "ChargeItem", "Invoice"}]

\* The resource types requests name; the service has some of them
\* (ServiceRequest is not in the EHR catalogue).
ResourceTypes == {"Patient", "Observation", "ServiceRequest"}

supported_resources == Catalogue[service_name] \cap ResourceTypes

\* uuid.uuid4() draws: never equal to an id in use.
UuidPool == <<"u1">>

ClientIds == {"a"}

AllIds == ClientIds \cup {UuidPool[i] : i \in 1..Len(UuidPool)}

\* datetime.utcnow().isoformat() + "Z"
Times == {"t1"}

Absent == "<absent>"

NoRow == [none |-> TRUE]

NoDoc == [none |-> TRUE]

(* ------------------------------------------------------------------ *)
(* Python's int() and str() on decimal version strings                  *)
(* ------------------------------------------------------------------ *)

Digits == <<"0", "1", "2", "3", "4", "5", "6", "7", "8", "9">>

DigitVal(c) == CHOOSE i \in 0..9 : Digits[i + 1] = c

RECURSIVE int(_)
int(s) ==
    IF Len(s) = 0 THEN 0
    ELSE 10 * int(SubSeq(s, 1, Len(s) - 1)) + DigitVal(s[Len(s)])

RECURSIVE str(_)
str(n) ==
    IF n < 10 THEN <<Digits[n + 1]>>
    ELSE str(n \div 10) \o <<Digits[(n % 10) + 1]>>

\* str.lower() on the resource type names in use
lower(s) ==
    CASE s = "Patient" -> "patient"
      [] s = "Observation" -> "observation"
      [] s = "ServiceRequest" -> "servicerequest"
      [] s = "ChargeItem" -> "chargeitem"
      [] s = "DiagnosticReport" -> "diagnosticreport"
      [] s = "MedicationDispense" -> "medicationdispense"
      [] OTHER -> s

(* ------------------------------------------------------------------ *)
(* Documents: JSON objects as functions from field names to values      *)
(* ------------------------------------------------------------------ *)

Put(d, k, v) == [f \in (DOMAIN d) \cup {k} |-> IF f = k THEN v ELSE d[f]]

Has(d, k) == k \in DOMAIN d

\* A request body: optional id, gender, name, and (spoof) caller-written
\* resourceType and meta.
BuildDoc(i, g, nm, sp) ==
    LET dom == (IF i # Absent THEN {"id"} ELSE {})
               \cup (IF g # Absent THEN {"gender"} ELSE {})
               \cup (IF nm # Absent THEN {"name"} ELSE {})
               \cup (IF sp THEN {"resourceType", "meta"} ELSE {})
    IN [f \in dom |->
          CASE f = "id" -> i
            [] f = "gender" -> g
            [] f = "name" -> nm
            [] f = "resourceType" -> "ServiceRequest"
            [] f = "meta" -> [versionId |-> <<"7">>]]

Bodies == {<<"f", Absent>>, <<Absent, "n">>}

Docs ==
    {BuildDoc(i, b[1], b[2], sp) :
        i \in {Absent, "", "a"}, b \in Bodies, sp \in BOOLEAN}

Meta(version_id, ts) == [versionId |-> version_id, lastUpdated |-> ts]

(* ------------------------------------------------------------------ *)
(* FHIRService: the pieces of the store operations                      *)
(* ------------------------------------------------------------------ *)

\* session.query(FHIRResourceStore).filter(resource_type == .., id == ..).first()
Query(st, resource_type, resource_id) ==
    IF st[resource_id] # NoRow /\ st[resource_id].resource_type = resource_type
    THEN st[resource_id]
    ELSE NoRow

\* (variant: the type check is missing)
SupportedAny(resource_type) == TRUE

\* resource_type in self.supported_resources
Supported(resource_type) == resource_type \in supported_resources

\* read_resource: the stored document, or HTTPException(404)
read_resource(st, resource_type, resource_id) ==
    LET row == Query(st, resource_type, resource_id)
    IN IF row = NoRow THEN [status |-> 404, body |-> NoDoc]
       ELSE [status |-> 200, body |-> row.data]

\* (variant: the flush also compares the version it read, as with a
\* version_id_col)
MatchesVersion(st, r) ==
    st[r.resource_id] # NoRow /\ st[r.resource_id].version_id = r.version_id

\* The flush of a loaded row is UPDATE ... WHERE id = <primary key>; it
\* matches whatever row holds that id now (StaleDataError when none does).
Matches(st, r) == st[r.resource_id] # NoRow

\* data.get("id") or str(uuid.uuid4()): a missing or falsy id draws a uuid
ResourceId(data, fresh) ==
    IF Has(data, "id") /\ data["id"] # "" THEN data["id"] ELSE fresh

\* (variant: a meta the caller sent is kept)
CreateDataKeepMeta(resource_type, resource_id, data, ts) ==
    Put(Put(IF Has(data, "meta") THEN data ELSE Put(data, "meta", Meta(<<"1">>, ts)),
            "id", resource_id), "resourceType", resource_type)

\* create_resource: the caller's dict with id, resourceType and meta set
CreateData(resource_type, resource_id, data, ts) ==
    Put(Put(Put(data, "id", resource_id), "resourceType", resource_type),
        "meta", Meta(<<"1">>, ts))

\* (variant: the version is carried over unchanged)
NewVersionSame(version_id) == str(int(version_id))

\* new_version = str(int(resource.version_id) + 1)
NewVersion(version_id) == str(int(version_id) + 1)

\* update_resource: the caller's dict with id, resourceType and meta set
UpdateData(resource_type, resource_id, new_version, data, ts) ==
    Put(Put(Put(data, "id", resource_id), "resourceType", resource_type),
        "meta", Meta(new_version, ts))

\* (variant: the new document is merged into the old one)
UpdatedRowMerge(row, data, new_version) ==
    [row EXCEPT !.data = [f \in (DOMAIN data) \cup (DOMAIN row.data) |->
                            IF f \in DOMAIN data THEN data[f] ELSE row.data[f]],
                !.version_id = new_version]

\* resource.data = data; resource.version_id = new_version
UpdatedRow(row, data, new_version) ==
    [row EXCEPT !.data = data, !.version_id = new_version]

\* session.add(resource); session.commit(): INSERT under primary key id
Insert(st, resource_id, row) == [st EXCEPT ![resource_id] = row]

\* (variant: the row is only answered as deleted)
DeleteRowKeep(st, resource_id) == st

\* session.delete(resource); session.commit(): DELETE ... WHERE id = pk
DeleteRow(st, resource_id) == [st EXCEPT ![resource_id] = NoRow]

\* search_resources with no filter parameters: total and the entries
SearchBundle(st, resource_type) ==
    LET hits == {i \in AllIds : st[i] # NoRow /\ st[i].resource_type = resource_type}
    IN [resourceType |-> "Bundle", total |-> Cardinality(hits),
        entry |-> {st[i].data : i \in hits}]

(* ------------------------------------------------------------------ *)
(* FHIRService.publish_event                                            *)
(* ------------------------------------------------------------------ *)

\* (variant: the resource type is not lower-cased)
RoutingKeyRaw(event_type, resource) ==
    <<service_name,
      IF Has(resource, "resourceType") THEN resource["resourceType"] ELSE "unknown",
      event_type>>

\* routing_key: f"{service_name}.{resourceType.lower()}.{event_type}"
RoutingKey(event_type, resource) ==
    <<service_name,
      lower(IF Has(resource, "resourceType") THEN resource["resourceType"] ELSE "unknown"),
      event_type>>

\* the CloudEvents envelope; n and gen are history labels, not wire fields
Event(event_type, resource, n, g) ==
    [type |-> <<"org", "hl7", "fhir", "r4",
                IF Has(resource, "resourceType") THEN resource["resourceType"] ELSE "None",
                event_type>>,
     source |-> <<"/", service_name>>,
     data |-> resource,
     routing_key |-> RoutingKey(event_type, resource),
     n |-> n, gen |-> g]

\* (variant: the message overtakes the ones published before)
PublishFirst(log, event) == <<event>> \o log

\* exchange.publish(...): the message joins the exchange's stream
Publish(log, event) == Append(log, event)

(* ------------------------------------------------------------------ *)
(* FHIRService.search_resources and get_capability_statement            *)
(* ------------------------------------------------------------------ *)

\* Write requests accepted in one behaviour of the search view.
MaxWrites == 3

\* Text is a sequence of symbols, so that "Patient/" + value and substring
\* tests are computed.  SQL NULL (a JSON path that leads nowhere):
Null == <<"<null>">>

\* Python None as a parameter value
None == <<"<None>">>

\* Row ids of the search view, in the order of the index on (resource_type, id)
SIdOrder == <<"r1", "r2", "r3">>

SIds == {SIdOrder[k] : k \in 1..Len(SIdOrder)}

\* Clinical documents with the fields the filters read.
Obs1 ==
    [subject |-> [reference |-> <<"Patient", "/", "p", "1">>],
     status |-> <<"final">>,
     identifier |-> <<[system |-> <<"s">>, value |-> <<"v">>]>>,
     category |-> <<[coding |-> <<[system |-> <<"s">>, code |-> <<"k">>]>>]>>,
     code |-> [coding |-> <<[code |-> <<"c">>]>>]]

Obs2 ==
    [subject |-> [reference |-> <<"Patient", "/", "p", "1", "2">>],
     status |-> <<"final">>]

Obs3 == [status |-> <<"draft">>, identifier |-> <<>>]

\* (resource type, request body) pairs posted to the service
Postings ==
    {<<"Observation", Obs1>>, <<"Observation", Obs2>>, <<"Observation", Obs3>>,
     <<"Patient", Obs2>>}

\* str.startswith("_") on the parameter names in use
startswith_(key) == key \in {"_id", "_count", "_offset"}

\* data["subject"]["reference"].astext
Reference(data) ==
    IF Has(data, "subject") /\ Has(data["subject"], "reference")
    THEN data["subject"]["reference"] ELSE Null

\* column.contains(value): LIKE '%' || value || '%'
contains(text, value) ==
    /\ text # Null
    /\ \E k \in 0..(Len(text) - Len(value)) :
          SubSeq(text, k + 1, k + Len(value)) = value

\* jsonb @> [{key: value}]: some element of the array has key = value
ArrayContains(array, key, value) ==
    \E k \in 1..Len(array) : Has(array[k], key) /\ array[k][key] = value

\* the if / elif chain on the parameter name: the filter added for key
Filter(data, key, value) ==
    CASE key = "patient" -> Reference(data) = <<"Patient", "/">> \o value
      [] key = "subject" -> contains(Reference(data), value)
      [] key = "status" -> Has(data, "status") /\ data["status"] = value
      [] key = "identifier" ->
            Has(data, "identifier") /\ ArrayContains(data["identifier"], "value", value)
      [] key = "category" ->
            /\ Has(data, "category")
            /\ \E k \in 1..Len(data["category"]) :
                  /\ Has(data["category"][k], "coding")
                  /\ ArrayContains(data["category"][k]["coding"], "code", value)
      [] key = "code" ->
            /\ Has(data, "code") /\ Has(data["code"], "coding")
            /\ ArrayContains(data["code"]["coding"], "code", value)
      [] OTHER -> TRUE

\* (variant: underscore names are filtered on like any other)
SkippedNever(key, value) == FALSE

\* if key.startswith("_"): continue / if value is None: continue
Skipped(key, value) == startswith_(key) \/ value = None

\* the query after the loop over params.items(): its WHERE clause on data
Accepts(data, params) ==
    \A key \in DOMAIN params :
        ~Skipped(key, params[key]) => Filter(data, key, params[key])

\* The query has no ORDER BY: rows come in the order of the scan the planner
\* picks, the heap order (sequential scan) or the order of the index on
\* (resource_type, id).
Plans == {"seq", "index"}

RowOf(tbl, i) == tbl[CHOOSE k \in 1..Len(tbl) : tbl[k].id = i]

ScanOrder(tbl, plan) ==
    IF plan = "seq" THEN tbl
    ELSE LET ids == SelectSeq(SIdOrder,
                              LAMBDA i : \E k \in 1..Len(tbl) : tbl[k].id = i)
         IN [k \in 1..Len(ids) |-> RowOf(tbl, ids[k])]

\* query.offset(offset).limit(limit).all()
Page(rows, limit, offset) ==
    SubSeq(rows, offset + 1,
           IF offset + limit < Len(rows) THEN offset + limit ELSE Len(rows))

\* search_resources: total = query.count(), then the page, then the bundle
search_resources(tbl, resource_type, params, limit, offset, plan) ==
    LET Hit(r) == r.resource_type = resource_type /\ Accepts(r.data, params)
        total == Len(SelectSeq(tbl, Hit))
        resources == Page(SelectSeq(ScanOrder(tbl, plan), Hit), limit, offset)
    IN [resourceType |-> "Bundle", type |-> "searchset", total |-> total,
        entry |-> [k \in 1..Len(resources) |->
                     [fullUrl |-> <<resource_type, "/", resources[k].id>>,
                      resource |-> resources[k].data]]]

\* get_capability_statement: one entry per supported type
get_capability_statement ==
    [resourceType |-> "CapabilityStatement",
     resource |-> [rt \in supported_resources |->
        [type |-> rt,
         interaction |-> <<"read", "vread", "update", "delete", "create",
                           "search-type">>,
         searchParam |-> <<"_id", "identifier", "patient", "status">>]]]

\* Search requests: parameter dicts, _count and _offset
ParamSets ==
    {<<>>,
     [patient |-> <<"p", "1">>],
     [subject |-> <<"p", "1">>],
     [status |-> <<"final">>],
     [identifier |-> <<"v">>],
     [category |-> <<"k">>],
     [code |-> <<"c">>],
     [subject |-> <<"p", "1">>, status |-> <<"final">>, code |-> None],
     [status |-> <<"final">>] @@ ("_id" :> <<"r", "1">>) @@ ("family" :> <<"x">>)}

Counts == {1, 2}

Offsets == {0, 1}

(* ------------------------------------------------------------------ *)
(* Integration engine: MessageRouter                                    *)
(* ------------------------------------------------------------------ *)

\* Messages handled in one behaviour of the router.
MaxMsgs == 3

\* len(self.message_log) > 1000 / [-1000:] / ltrim(.., 0, 999): the cap of
\* the log and of the Redis list, scaled down
LogCap == 2

\* A routing key or pattern is text: a sequence of symbols, "." among them.
Key(a, b, c) == <<a, ".", b, ".", c>>

Key4(a, b, c, d) == <<a, ".", b, ".", c, ".", d>>

\* A JSON value in the place of a routing key that is no string (a number).
NotText == <<"<int>">>

IsText(value) == value # NotText

\* str.split("."): the pieces between the dots, empty ones included
RECURSIVE split(_)
split(text) ==
    IF \A k \in 1..Len(text) : text[k] # "." THEN <<text>>
    ELSE LET d == CHOOSE k \in 1..Len(text) :
                     text[k] = "." /\ \A j \in 1..(k - 1) : text[j] # "."
         IN <<SubSeq(text, 1, d - 1)>> \o split(SubSeq(text, d + 1, Len(text)))

\* (variant: zip() alone decides, the lengths are not compared)
MatchesPatternZipOnly(routing_key, pattern) ==
    LET key_parts == split(routing_key)
        pattern_parts == split(pattern)
        n == IF Len(key_parts) < Len(pattern_parts)
             THEN Len(key_parts) ELSE Len(pattern_parts)
    IN \A k \in 1..n :
          ~(pattern_parts[k] # <<"*">> /\ key_parts[k] # pattern_parts[k])

\* MessageRouter._matches_pattern
_matches_pattern(routing_key, pattern) ==
    LET key_parts == split(routing_key)
        pattern_parts == split(pattern)
    IN IF Len(key_parts) # Len(pattern_parts) THEN FALSE
       ELSE \A k \in 1..Len(key_parts) :
               ~(pattern_parts[k] # <<"*">> /\ key_parts[k] # pattern_parts[k])

\* SERVICES: the systems with a URL
SERVICES == {"ehr", "lis", "ris", "pharmacy", "pas", "billing"}

\* ROUTING_RULES at import
DefaultRules ==
    (Key4("pas", "*", "adt", "*") :> <<"ehr", "lis", "ris", "pharmacy", "billing">>)
    @@ (Key("ehr", "servicerequest", "created") :> <<"lis", "ris">>)
    @@ (Key("lis", "diagnosticreport", "completed") :> <<"ehr">>)
    @@ (Key("ris", "diagnosticreport", "completed") :> <<"ehr">>)
    @@ (Key("pharmacy", "medicationdispense", "dispensed") :> <<"ehr">>)
    @@ (Key("billing", "charge", "posted") :> <<"ehr">>)

\* Every system a rule may name, in one fixed order.
Systems == <<"ehr", "lis", "ris", "pharmacy", "pas", "billing", "audit">>

\* list(destinations) of a set: each member once (in the set's own order,
\* which nothing reads; here the order of Systems)
list(set) == SelectSeq(Systems, LAMBDA d : d \in set)

\* (variant: the destinations of the first matching rule only)
FindDestinationsFirst(rules, routing_key) ==
    LET hits == {pattern \in DOMAIN rules : _matches_pattern(routing_key, pattern)}
    IN IF hits = {} THEN <<>>
       ELSE list({rules[CHOOSE pattern \in hits : TRUE][k] :
                    k \in 1..Len(rules[CHOOSE pattern \in hits : TRUE])})

\* MessageRouter._find_destinations
_find_destinations(rules, routing_key) ==
    list(UNION {{rules[pattern][k] : k \in 1..Len(rules[pattern])} :
                  pattern \in {q \in DOMAIN rules : _matches_pattern(routing_key, q)}})

\* (variant: the cap is applied one entry late)
TrimLate(log) ==
    IF Len(log) > LogCap + 1 THEN SubSeq(log, Len(log) - LogCap, Len(log)) ELSE log

\* if len(self.message_log) > 1000: self.message_log = self.message_log[-1000:]
Trim(log) ==
    IF Len(log) > LogCap THEN SubSeq(log, Len(log) - LogCap + 1, Len(log)) ELSE log

\* dict.get on a message
Get(message, key) == IF Has(message, key) THEN message[key] ELSE None

\* log_entry as process_message builds it
LogEntry(routing_key, message) ==
    [timestamp |-> "t1", routing_key |-> routing_key,
     message_type |-> Get(message, "type"), source |-> Get(message, "source"),
     id |-> Get(message, "id"), destinations |-> <<>>, status |-> "processing"]

\* (variant: the entry is logged as it stands when the try block begins)
FinishedEntryProcessing(entry, destinations, failed) == entry

\* (variant: the except branch records the status alone)
FinishedEntryNoText(entry, destinations, failed) ==
    [entry EXCEPT !.destinations = destinations,
                  !.status = IF failed THEN "error" ELSE "completed"]

\* log_entry after the try / except
FinishedEntry(entry, destinations, failed) ==
    IF failed
    THEN [f \in (DOMAIN entry) \cup {"error"} |->
            CASE f = "destinations" -> destinations
              [] f = "status" -> "error"
              [] f = "error" -> "str(e)"
              [] OTHER -> entry[f]]
    ELSE [entry EXCEPT !.destinations = destinations, !.status = "completed"]

\* Messages: the routing keys on the exchange and the JSON bodies
RoutingKeys == {Key4("pas", "encounter", "adt", "a01"), Key("pas", "encounter", "adt")}

\* an event envelope with unique id n
Envelope(n) ==
    [type |-> <<"org.hl7.fhir.r4.X.created">>, source |-> <<"/ehr">>, id |-> n]

\* POST /rules requests
NewRules == {<<Key4("pas", "*", "*", "*"), <<"ehr", "audit">>>>}

(* ------------------------------------------------------------------ *)
(* State                                                                *)
(* ------------------------------------------------------------------ *)

VARIABLES
    store,             \* table fhir_resources: primary key id -> row
    reqs,              \* each suspended handler's position and locals
    response,          \* the HTTP response sent last
    published,         \* messages on exchange healthcare.events, in order
    rabbitmq_channel,  \* whether setup() obtained a channel
    uuids,             \* uuid4 draws so far
    nops,              \* requests accepted so far
    gen,               \* per id: rows inserted under it so far
    updates,           \* per id: updates committed on the current row
    overlapped         \* ids on which two requests were in flight at once

\* The same table seen by search: the physical order of its rows matters.
VARIABLES
    table,             \* rows of fhir_resources in heap order
    inserted,          \* ids of the stored rows in the order of their INSERT
    answer,            \* the response sent last, with the request it answers
    writes             \* write requests accepted so far

searchVars == <<table, inserted, answer, writes>>

\* The integration engine (a process of its own).
VARIABLES
    routing_rules,     \* ROUTING_RULES: pattern -> destinations
    message_log,       \* router.message_log
    stats,             \* router.stats
    redis_client,      \* whether lifespan() obtained a Redis client
    redis_list,        \* the Redis list integration:messages, head first
    tasks,             \* process_message calls suspended in a Redis call
    handled,           \* messages delivered or injected so far
    consumed           \* the message handled last

routerVars == <<routing_rules, message_log, stats, redis_client, redis_list,
                tasks, handled, consumed>>

\* The clinical services side by side (each has a database of its own).
VARIABLES
    db                 \* per service: the rows of its fhir_resources, heap order

storeVars == <<store, reqs, response, published, rabbitmq_channel, uuids, nops,
               gen, updates, overlapped, db>>

vars == <<store, reqs, response, published, rabbitmq_channel, uuids, nops,
          gen, updates, overlapped, table, inserted, answer, writes,
          routing_rules, message_log, stats, redis_client, redis_list, tasks,
          handled, consumed, db>>

IdleReq ==
    [n |-> 0, op |-> "none", pc |-> "idle", resource_type |-> Absent,
     resource_id |-> Absent, data |-> NoDoc, version_id |-> <<>>,
     event_type |-> Absent, gen |-> 0]

NoResponse ==
    [n |-> 0, op |-> "none", resource_type |-> Absent, resource_id |-> Absent,
     status |-> 0, body |-> NoDoc]

Row(resource_type, version_id, data) ==
    [resource_type |-> resource_type, version_id |-> version_id, data |-> data]

\* _seed_data runs create_resource on every seed entry inside setup(), before
\* any request is served and without publishing: the row it leaves behind.
SeedRow ==
    Row("Patient", <<"1">>,
        CreateData("Patient", "a", [id |-> "a", gender |-> "m", name |-> "n"], "t1"))

NoAnswer == [op |-> "none"]

\* The search view before any request.
SearchIdle ==
    /\ table = <<>>
    /\ inserted = <<>>
    /\ answer = NoAnswer
    /\ writes = 0

\* The services that keep resources, and their tables before any row.
Services == DOMAIN Catalogue

NoTables == [s \in Services |-> <<>>]

RTasks == {1, 2}

IdleTask == [pc |-> "idle"]

NoMessage == [n |-> 0]

\* MessageRouter.__init__ and the module's globals, before any message
RouterIdle ==
    /\ routing_rules = DefaultRules
    /\ message_log = <<>>
    /\ stats = [messages_received |-> 0, messages_routed |-> 0, errors |-> 0]
    /\ redis_list = <<>>
    /\ tasks = [t \in RTasks |-> IdleTask]
    /\ handled = 0
    /\ consumed = NoMessage

Init ==
    /\ SearchIdle
    /\ RouterIdle /\ redis_client = TRUE
    /\ store = [i \in AllIds |-> IF i = "a" THEN SeedRow ELSE NoRow]
    /\ gen = [i \in AllIds |-> IF i = "a" THEN 1 ELSE 0]
    /\ reqs = [p \in Procs |-> IdleReq]
    /\ response = NoResponse
    /\ published = <<>>
    /\ rabbitmq_channel \in BOOLEAN
    /\ uuids = 0
    /\ nops = 0
    /\ updates = [i \in AllIds |-> 0]
    /\ overlapped = {}
    /\ db = NoTables

(* ------------------------------------------------------------------ *)
(* Request handlers of create_fhir_app                                  *)
(* ------------------------------------------------------------------ *)

InFlight(q) == reqs[q].pc # "idle"

\* A request is served by the first free handler slot (slots are alike).
CanStart(p) ==
    /\ reqs[p].pc = "idle"
    /\ \A q \in Procs : q < p => InFlight(q)
    /\ nops < MaxOps

Start(op, resource_type, resource_id, data) ==
    [IdleReq EXCEPT !.n = nops + 1, !.op = op, !.resource_type = resource_type,
                    !.resource_id = resource_id, !.data = data]

\* JSONResponse(content = body, status_code = status) for request r
Respond(r, status, body) ==
    [n |-> r.n, op |-> r.op, resource_type |-> r.resource_type,
     resource_id |-> r.resource_id, status |-> status, body |-> body]

\* ids on which request p meets another request in flight
Meets(p, resource_id) ==
    IF \E q \in Procs \ {p} : InFlight(q) /\ reqs[q].resource_id = resource_id
    THEN {resource_id} ELSE {}

\* After the commit: without a channel publish_event returns at once and
\* the handler responds; with one the handler suspends inside publish_event.
AfterCommit(p, r, event_type, ok) ==
    IF rabbitmq_channel
    THEN /\ reqs' = [reqs EXCEPT ![p] =
                [r EXCEPT !.pc = "publish", !.event_type = event_type]]
         /\ UNCHANGED response
    ELSE /\ reqs' = [reqs EXCEPT ![p] = IdleReq]
         /\ response' = Respond(r, ok, r.data)

\* An exception (HTTPException or an uncaught error) ends the handler.
Raise(p, r, status) ==
    /\ reqs' = [reqs EXCEPT ![p] = IdleReq]
    /\ response' = Respond(r, status, NoDoc)

\* POST /fhir/r4/{resource_type}
CreateResource(p, resource_type, data) ==
    /\ CanStart(p)
    /\ nops' = nops + 1
    /\ IF ~Supported(resource_type)
       THEN /\ Raise(p, Start("create", resource_type, Absent, data), 400)
            /\ UNCHANGED <<store, uuids, gen, updates, overlapped>>
       ELSE \E ts \in Times :
            LET draws == ~(Has(data, "id") /\ data["id"] # "")
                rid == ResourceId(data, UuidPool[uuids + 1])
                doc == CreateData(resource_type, rid, data, ts)
                r == Start("create", resource_type, rid, doc)
            IN /\ draws => uuids < Len(UuidPool)
               /\ uuids' = IF draws THEN uuids + 1 ELSE uuids
               /\ overlapped' = overlapped \cup Meets(p, rid)
               /\ IF store[rid] # NoRow
                  THEN \* IntegrityError: duplicate primary key
                       /\ Raise(p, r, 500)
                       /\ UNCHANGED <<store, gen, updates>>
                  ELSE /\ store' = Insert(store, rid, Row(resource_type, <<"1">>, doc))
                       /\ gen' = [gen EXCEPT ![rid] = @ + 1]
                       /\ updates' = [updates EXCEPT ![rid] = 0]
                       /\ AfterCommit(p, [r EXCEPT !.gen = gen[rid] + 1],
                                      "created", 201)
    /\ UNCHANGED <<published, rabbitmq_channel>>

\* GET /fhir/r4/{resource_type}/{resource_id}
ReadResource(p, resource_type, resource_id) ==
    /\ CanStart(p)
    /\ nops' = nops + 1
    /\ LET got == read_resource(store, resource_type, resource_id)
           r == Start("read", resource_type, resource_id, NoDoc)
       IN response' = Respond(r, got.status, got.body)
    /\ UNCHANGED <<store, reqs, published, rabbitmq_channel, uuids, gen, updates,
                   overlapped>>

\* PUT /fhir/r4/{resource_type}/{resource_id}: the SELECT, then the new
\* version and the dict's id, resourceType and meta (local to the handler)
UpdateQuery(p, resource_type, resource_id, data) ==
    /\ CanStart(p)
    /\ nops' = nops + 1
    /\ LET row == Query(store, resource_type, resource_id)
           r == Start("update", resource_type, resource_id, data)
       IN IF row = NoRow
          THEN /\ Raise(p, r, 404)
               /\ UNCHANGED overlapped
          ELSE \E ts \in Times :
               /\ reqs' = [reqs EXCEPT ![p] =
                      [r EXCEPT !.pc = "update_commit",
                                !.version_id = row.version_id,
                                !.data = UpdateData(resource_type, resource_id,
                                                    NewVersion(row.version_id),
                                                    data, ts)]]
               /\ overlapped' = overlapped \cup Meets(p, resource_id)
               /\ UNCHANGED response
    /\ UNCHANGED <<store, published, rabbitmq_channel, uuids, gen, updates>>

\* resource.data = data; resource.version_id = new_version; session.commit():
\* UPDATE ... WHERE id = pk
UpdateCommit(p) ==
    /\ reqs[p].pc = "update_commit"
    /\ LET r == reqs[p]
           rid == r.resource_id
       IN IF ~Matches(store, r)
          THEN \* StaleDataError: the UPDATE matched no row
               /\ Raise(p, r, 500)
               /\ UNCHANGED <<store, updates>>
          ELSE /\ store' = [store EXCEPT ![rid] =
                      UpdatedRow(@, r.data, NewVersion(r.version_id))]
               /\ updates' = [updates EXCEPT ![rid] = @ + 1]
               /\ AfterCommit(p, [r EXCEPT !.gen = gen[rid]], "updated", 200)
    /\ UNCHANGED <<published, rabbitmq_channel, uuids, nops, gen, overlapped>>

\* DELETE /fhir/r4/{resource_type}/{resource_id}: up to the SELECT
DeleteQuery(p, resource_type, resource_id) ==
    /\ CanStart(p)
    /\ nops' = nops + 1
    /\ LET row == Query(store, resource_type, resource_id)
           r == Start("delete", resource_type, resource_id, NoDoc)
       IN IF row = NoRow
          THEN /\ Raise(p, r, 404)
               /\ UNCHANGED overlapped
          ELSE /\ reqs' = [reqs EXCEPT ![p] = [r EXCEPT !.pc = "delete_commit"]]
               /\ overlapped' = overlapped \cup Meets(p, resource_id)
               /\ UNCHANGED response
    /\ UNCHANGED <<store, published, rabbitmq_channel, uuids, gen, updates>>

\* (variant: the delete handler publishes a "deleted" event as well)
DeleteCommitPublishes(p) ==
    /\ reqs[p].pc = "delete_commit"
    /\ store' = DeleteRow(store, reqs[p].resource_id)
    /\ published' = Publish(published,
                            Event("deleted",
                                  [id |-> reqs[p].resource_id,
                                   resourceType |-> reqs[p].resource_type],
                                  reqs[p].n, gen[reqs[p].resource_id]))
    /\ reqs' = [reqs EXCEPT ![p] = IdleReq]
    /\ response' = Respond(reqs[p], 204, [message |-> "Resource deleted"])
    /\ UNCHANGED <<rabbitmq_channel, uuids, nops, gen, updates, overlapped>>

\* session.delete(resource); session.commit(); the 204 response
DeleteCommit(p) ==
    /\ reqs[p].pc = "delete_commit"
    /\ store' = DeleteRow(store, reqs[p].resource_id)
    /\ reqs' = [reqs EXCEPT ![p] = IdleReq]
    /\ response' = Respond(reqs[p], 204, [message |-> "Resource deleted"])
    /\ UNCHANGED <<published, rabbitmq_channel, uuids, nops, gen, updates,
                   overlapped>>

\* GET /fhir/r4/{resource_type}
SearchResources(p, resource_type) ==
    /\ CanStart(p)
    /\ nops' = nops + 1
    /\ response' = Respond(Start("search", resource_type, Absent, NoDoc), 200,
                           SearchBundle(store, resource_type))
    /\ UNCHANGED <<store, reqs, published, rabbitmq_channel, uuids, gen, updates,
                   overlapped>>

\* publish_event resumes: the message is published, the handler responds
PublishEvent(p) ==
    /\ reqs[p].pc = "publish"
    /\ published' = Publish(published,
                            Event(reqs[p].event_type, reqs[p].data,
                                  reqs[p].n, reqs[p].gen))
    /\ reqs' = [reqs EXCEPT ![p] = IdleReq]
    /\ response' = Respond(reqs[p], IF reqs[p].op = "create" THEN 201 ELSE 200,
                           reqs[p].data)
    /\ UNCHANGED <<store, rabbitmq_channel, uuids, nops, gen, updates, overlapped>>

\* (variant: a publish that raises takes the committed row back)
PublishFailsRollsBack(p) ==
    /\ reqs[p].pc = "publish"
    /\ Raise(p, reqs[p], 500)
    /\ store' = DeleteRow(store, reqs[p].resource_id)
    /\ UNCHANGED <<published, rabbitmq_channel, uuids, nops, gen, updates,
                   overlapped>>

\* get_exchange / exchange.publish raises: nothing catches it, so a 500
PublishFails(p) ==
    /\ reqs[p].pc = "publish"
    /\ Raise(p, reqs[p], 500)
    /\ UNCHANGED <<store, published, rabbitmq_channel, uuids, nops, gen, updates,
                   overlapped>>

PathIds == ClientIds \cup {UuidPool[i] : i \in 1..uuids}

Next ==
    /\ UNCHANGED searchVars
    /\ UNCHANGED routerVars
    /\ UNCHANGED db
    /\ \E p \in Procs :
        \/ \E t \in ResourceTypes, d \in Docs : CreateResource(p, t, d)
        \/ \E t \in supported_resources, i \in PathIds : ReadResource(p, t, i)
        \/ \E t \in supported_resources, i \in PathIds, d \in Docs : UpdateQuery(p, t, i, d)
        \/ UpdateCommit(p)
        \/ \E t \in supported_resources, i \in PathIds : DeleteQuery(p, t, i)
        \/ DeleteCommit(p)
        \/ \E t \in supported_resources : SearchResources(p, t)
        \/ PublishEvent(p)
        \/ PublishFails(p)

Spec == Init /\ [][Next]_vars

(* ------------------------------------------------------------------ *)
(* The search view: requests served one at a time on one table          *)
(* ------------------------------------------------------------------ *)

Stored(i) == \E k \in 1..Len(table) : table[k].id = i

Without(seq, i) == SelectSeq(seq, LAMBDA r : r.id # i)

SRow(i, resource_type, version_id, data) ==
    [id |-> i, resource_type |-> resource_type, version_id |-> version_id,
     data |-> data]

\* POST /fhir/r4/{resource_type} with id i in the body: INSERT puts the
\* tuple at the end of the heap
InsertTuple(resource_type, i, data) ==
    /\ writes < MaxWrites
    /\ ~Stored(i)
    /\ LET doc == CreateData(resource_type, i, Put(data, "id", i), "t1")
       IN /\ table' = Append(table, SRow(i, resource_type, <<"1">>, doc))
          /\ answer' = [op |-> "create", status |-> 201, body |-> doc]
    /\ inserted' = Append(inserted, i)
    /\ writes' = writes + 1
    /\ UNCHANGED storeVars

\* PUT /fhir/r4/{resource_type}/{i}: UPDATE writes a new tuple version at
\* the end of the heap and the old one is dead
UpdateTuple(i, data) ==
    /\ writes < MaxWrites
    /\ Stored(i)
    /\ LET row == RowOf(table, i)
           new_version == NewVersion(row.version_id)
           doc == UpdateData(row.resource_type, i, new_version, data, "t1")
       IN /\ table' = Append(Without(table, i),
                             SRow(i, row.resource_type, new_version, doc))
          /\ answer' = [op |-> "update", status |-> 200, body |-> doc]
    /\ writes' = writes + 1
    /\ UNCHANGED <<inserted, storeVars>>

\* DELETE /fhir/r4/{resource_type}/{i}
DeleteTuple(i) ==
    /\ writes < MaxWrites
    /\ Stored(i)
    /\ table' = Without(table, i)
    /\ inserted' = SelectSeq(inserted, LAMBDA j : j # i)
    /\ answer' = [op |-> "delete", status |-> 204]
    /\ writes' = writes + 1
    /\ UNCHANGED storeVars

\* GET /fhir/r4/{resource_type}?...&_count=..&_offset=..
SearchRequest(resource_type, params, _count, _offset, plan) ==
    /\ answer' = [op |-> "search", status |-> 200,
                  resource_type |-> resource_type, params |-> params,
                  limit |-> _count, offset |-> _offset,
                  body |-> search_resources(table, resource_type, params,
                                            _count, _offset, plan)]
    /\ UNCHANGED <<table, inserted, writes, storeVars>>

\* GET /fhir/r4/metadata
CapabilityStatement ==
    /\ answer' = [op |-> "metadata", status |-> 200,
                  body |-> get_capability_statement]
    /\ UNCHANGED <<table, inserted, writes, storeVars>>

SearchInit ==
    /\ SearchIdle
    /\ RouterIdle /\ redis_client = TRUE
    /\ store = [i \in AllIds |-> IF i = "a" THEN SeedRow ELSE NoRow]
    /\ gen = [i \in AllIds |-> IF i = "a" THEN 1 ELSE 0]
    /\ reqs = [p \in Procs |-> IdleReq]
    /\ response = NoResponse
    /\ published = <<>>
    /\ rabbitmq_channel = FALSE
    /\ uuids = 0
    /\ nops = 0
    /\ updates = [i \in AllIds |-> 0]
    /\ overlapped = {}
    /\ db = NoTables

\* A search or a metadata request changes no row, so one that follows
\* another reaches no state that it does not reach from where the last write
\* left the table: the queries are explored from there only.
Settled == answer.op \notin {"search", "metadata"}

SearchNext ==
  /\ UNCHANGED routerVars
  /\
    \/ \E ps \in Postings, i \in SIds : InsertTuple(ps[1], i, ps[2])
    \/ \E ps \in Postings, i \in SIds : UpdateTuple(i, ps[2])
    \/ \E i \in SIds : DeleteTuple(i)
    \/ /\ Settled
       /\ \E params \in ParamSets, c \in Counts, o \in Offsets, plan \in Plans :
             SearchRequest("Observation", params, c, o, plan)
    \/ Settled /\ CapabilityStatement

SearchSpec == SearchInit /\ [][SearchNext]_vars

(* ------------------------------------------------------------------ *)
(* The integration engine                                               *)
(* ------------------------------------------------------------------ *)

\* A message is handled by the first free task slot (slots are alike).
FreeTask(t) ==
    /\ tasks[t].pc = "idle"
    /\ \A u \in RTasks : u < t => tasks[u].pc # "idle"
    /\ handled < MaxMsgs

\* process_message up to its first suspension: the counters, the entry,
\* the matching (routing_key.split raises for a key that is no text, and
\* destinations stays []), the forwards (the k-th of which raises when
\* failed_at = k, none when 0), the append and the cap; then the Redis
\* calls, if any.
ProcessMessage(t, routing_key, message, failed_at) ==
    LET destinations == IF IsText(routing_key)
                        THEN _find_destinations(routing_rules, routing_key)
                        ELSE <<>>
        failed == ~IsText(routing_key) \/ failed_at # 0
        forwarded == IF failed THEN failed_at - 1 ELSE Len(destinations)
        log_entry == FinishedEntry(LogEntry(routing_key, message), destinations,
                                   failed)
    IN /\ failed_at \in {0, Len(destinations)}
       /\ stats' = [messages_received |-> stats.messages_received + 1,
                    messages_routed |-> stats.messages_routed + forwarded,
                    errors |-> stats.errors + (IF failed THEN 1 ELSE 0)]
       /\ message_log' = Trim(Append(message_log, log_entry))
       /\ tasks' = IF redis_client
                   THEN [tasks EXCEPT ![t] = [pc |-> "lpush", log_entry |-> log_entry]]
                   ELSE tasks

\* consume_messages.on_message: a delivery from queue integration.engine
OnMessage(t, routing_key, body, failed_at) ==
    /\ FreeTask(t)
    /\ handled' = handled + 1
    /\ consumed' = [n |-> handled + 1, via |-> "broker", kind |-> body.kind]
    /\ CASE body.kind = "garbage" ->
               \* json.loads raises; on_message prints it
               /\ failed_at = 0
               /\ UNCHANGED <<message_log, stats, tasks>>
         [] body.kind = "array" ->
               \* message.get raises AttributeError before the try block
               /\ failed_at = 0
               /\ stats' = [stats EXCEPT !.messages_received = @ + 1]
               /\ UNCHANGED <<message_log, tasks>>
         [] body.kind = "object" ->
               ProcessMessage(t, routing_key, body.json, failed_at)
    /\ UNCHANGED <<routing_rules, redis_client, redis_list, storeVars, searchVars>>

\* POST /route
manual_route(t, message, failed_at) ==
    /\ FreeTask(t)
    /\ handled' = handled + 1
    /\ LET routing_key == IF Has(message, "routing_key") THEN message["routing_key"]
                          ELSE Key("manual", "test", "message")
       IN /\ consumed' = [n |-> handled + 1, via |-> "route", kind |-> "object"]
          /\ ProcessMessage(t, routing_key, message, failed_at)
    /\ UNCHANGED <<routing_rules, redis_client, redis_list, storeVars, searchVars>>

\* redis_client.lpush("integration:messages", json.dumps(log_entry)) returns
RedisLpush(t) ==
    /\ tasks[t].pc = "lpush"
    /\ redis_list' = <<tasks[t].log_entry>> \o redis_list
    /\ tasks' = [tasks EXCEPT ![t] = [pc |-> "ltrim"]]
    /\ UNCHANGED <<routing_rules, message_log, stats, redis_client, handled,
                   consumed, storeVars, searchVars>>

\* redis_client.ltrim("integration:messages", 0, 999) returns
RedisLtrim(t) ==
    /\ tasks[t].pc = "ltrim"
    /\ redis_list' = SubSeq(redis_list, 1,
                            IF Len(redis_list) < LogCap THEN Len(redis_list)
                            ELSE LogCap)
    /\ tasks' = [tasks EXCEPT ![t] = IdleTask]
    /\ UNCHANGED <<routing_rules, message_log, stats, redis_client, handled,
                   consumed, storeVars, searchVars>>

\* a Redis call raises (the server is away): the exception leaves
\* process_message
RedisFails(t) ==
    /\ tasks[t].pc \in {"lpush", "ltrim"}
    /\ tasks' = [tasks EXCEPT ![t] = IdleTask]
    /\ UNCHANGED <<routing_rules, message_log, stats, redis_client, redis_list,
                   handled, consumed, storeVars, searchVars>>

\* POST /rules
add_rule(pattern, destinations) ==
    /\ routing_rules' = (pattern :> destinations) @@ routing_rules
    /\ UNCHANGED <<message_log, stats, redis_client, redis_list, tasks, handled,
                   consumed, storeVars, searchVars>>

Bodies3(n) ==
    {[kind |-> "garbage"], [kind |-> "array"],
     [kind |-> "object", json |-> Envelope(n)]}

RouteMessages(n) ==
    {Put(Envelope(n), "routing_key", Key("ehr", "servicerequest", "created")),
     Put(Envelope(n), "routing_key", NotText)}

\* The forward that raises: none (0), or the k-th; process_message takes
\* the last one.
FailPoints == 0..Len(Systems)

RouterInit ==
    /\ RouterIdle
    /\ redis_client \in BOOLEAN
    /\ SearchIdle
    /\ store = [i \in AllIds |-> IF i = "a" THEN SeedRow ELSE NoRow]
    /\ gen = [i \in AllIds |-> IF i = "a" THEN 1 ELSE 0]
    /\ reqs = [p \in Procs |-> IdleReq]
    /\ response = NoResponse
    /\ published = <<>>
    /\ rabbitmq_channel = FALSE
    /\ uuids = 0
    /\ nops = 0
    /\ updates = [i \in AllIds |-> 0]
    /\ overlapped = {}
    /\ db = NoTables

RouterNext ==
    \/ \E t \in RTasks, k \in RoutingKeys, b \in Bodies3(handled + 1),
          f \in FailPoints : OnMessage(t, k, b, f)
    \/ \E t \in RTasks, m \in RouteMessages(handled + 1) : manual_route(t, m, 0)
    \/ \E t \in RTasks : RedisLpush(t)
    \/ \E t \in RTasks : RedisLtrim(t)
    \/ \E t \in RTasks : RedisFails(t)
    \/ \E r \in NewRules : add_rule(r[1], r[2])

RouterSpec == RouterInit /\ [][RouterNext]_vars

\* seq[start:] of Python: a negative start counts from the end, and both
\* ends are clipped to the sequence
SliceFrom(seq, start) ==
    LET from == IF start < 0
                THEN (IF Len(seq) + start < 0 THEN 0 ELSE Len(seq) + start)
                ELSE (IF start > Len(seq) THEN Len(seq) ELSE start)
    IN SubSeq(seq, from + 1, Len(seq))

\* The limits asked for: none, fewer than the log can hold, the cap, more.
Limits == 0..(LogCap + 1)

\* GET /messages?limit=N
get_messages(limit) ==
    /\ response = NoResponse
    /\ response' = [op |-> "messages", limit |-> limit, status |-> 200,
                    body |-> [messages |-> SliceFrom(message_log, 0 - limit),
                              total |-> Len(message_log)]]
    /\ UNCHANGED <<store, reqs, published, rabbitmq_channel, uuids, nops, gen,
                   updates, overlapped, db>>
    /\ UNCHANGED <<routerVars, searchVars>>

\* The router without a Redis client, its log read through GET /messages;
\* a read leaves the router as it is, so messages are followed from the
\* states before a read only.
MessagesInit == RouterInit /\ redis_client = FALSE

MessagesNext ==
    \/ /\ response = NoResponse
       /\ \E t \in RTasks, k \in RoutingKeys, b \in Bodies3(handled + 1),
             f \in FailPoints : OnMessage(t, k, b, f)
    \/ /\ response = NoResponse
       /\ \E t \in RTasks, m \in RouteMessages(handled + 1) : manual_route(t, m, 0)
    \/ \E limit \in Limits : get_messages(limit)

MessagesSpec == MessagesInit /\ [][MessagesNext]_vars

\* GET /rules
get_rules == [rules |-> routing_rules]

\* (variant: the rules outlive the process)
RestartKeepsRules ==
    /\ handled < MaxMsgs
    /\ message_log' = <<>>
    /\ stats' = [messages_received |-> 0, messages_routed |-> 0, errors |-> 0]
    /\ tasks' = [t \in RTasks |-> IdleTask]
    /\ UNCHANGED <<routing_rules, redis_client, redis_list, handled, consumed,
                   storeVars, searchVars>>

\* The router process ends and is started again: the module is imported
\* anew (ROUTING_RULES, router = MessageRouter()) and lifespan runs; the
\* tasks of the old process are gone; the Redis server keeps its list.
\* (Restarts are followed while messages are left to come.)
Restart ==
    /\ handled < MaxMsgs
    /\ routing_rules' = DefaultRules
    /\ message_log' = <<>>
    /\ stats' = [messages_received |-> 0, messages_routed |-> 0, errors |-> 0]
    /\ tasks' = [t \in RTasks |-> IdleTask]
    /\ UNCHANGED <<redis_client, redis_list, handled, consumed, storeVars, searchVars>>

RestartNext == RouterNext \/ Restart

\* The router over several lives of its process.
RestartSpec == RouterInit /\ [][RestartNext]_vars

(* ------------------------------------------------------------------ *)
(* The clinical services' own endpoints and the way to the router       *)
(* ------------------------------------------------------------------ *)

\* Calls accepted in a run of the services
MaxCalls == 3

\* An event type is the list of its dot-free pieces ("adt.a01" is two).
Dotted(event_type) ==
    [k \in 1..(2 * Len(event_type) - 1) |->
        IF k % 2 = 1 THEN event_type[(k + 1) \div 2] ELSE "."]

\* (variant: the resource type is not lower-cased)
TopicRaw(service, resource, event_type) ==
    <<service, ".",
      IF Has(resource, "resourceType") THEN resource["resourceType"] ELSE "unknown",
      ".">> \o Dotted(event_type)

\* routing_key of publish_event as the text the broker carries:
\* f"{service_name}.{resource.get('resourceType', 'unknown').lower()}.{event_type}"
Topic(service, resource, event_type) ==
    <<service, ".",
      lower(IF Has(resource, "resourceType") THEN resource["resourceType"]
            ELSE "unknown"),
      ".">> \o Dotted(event_type)

\* The CloudEvents envelope of publish_event with its routing key; n is
\* the uuid4 id (unique), by a history label naming the endpoint function.
Published(service, event_type, resource, n, by) ==
    [routing_key |-> Topic(service, resource, event_type),
     type |-> <<"org.hl7.fhir.r4",
                IF Has(resource, "resourceType") THEN resource["resourceType"]
                ELSE "None">> \o event_type,
     source |-> <<"/", service>>,
     id |-> n,
     by |-> by]

\* The routes of a service's app in registration order: create_fhir_app
\* registers the generic ones, the service module adds its own after them.
\* A path is its list of segments, "{}" a path parameter.
GenericRoutes ==
    <<[method |-> "GET", path |-> <<"fhir", "r4", "metadata">>,
       endpoint |-> "capability_statement"],
      [method |-> "POST", path |-> <<"fhir", "r4", "{}">>,
       endpoint |-> "create_resource"],
      [method |-> "GET", path |-> <<"fhir", "r4", "{}", "{}">>,
       endpoint |-> "read_resource"],
      [method |-> "PUT", path |-> <<"fhir", "r4", "{}", "{}">>,
       endpoint |-> "update_resource"],
      [method |-> "DELETE", path |-> <<"fhir", "r4", "{}", "{}">>,
       endpoint |-> "delete_resource"],
      [method |-> "GET", path |-> <<"fhir", "r4", "{}">>,
       endpoint |-> "search_resources"]>>

\* The POST routes the service modules add (those of the workflows)
OwnRoutes ==
    [ehr |-> <<>>,
     lis |-> <<[method |-> "POST",
                path |-> <<"fhir", "r4", "ServiceRequest", "{}", "$process">>,
                endpoint |-> "process_lab_order"]>>,
     ris |-> <<[method |-> "POST",
                path |-> <<"fhir", "r4", "ServiceRequest", "{}", "$complete">>,
                endpoint |-> "complete_imaging_study"]>>,
     pharmacy |-> <<[method |-> "POST",
                     path |-> <<"fhir", "r4", "MedicationRequest", "{}", "$dispense">>,
                     endpoint |-> "dispense_medication"]>>,
     pas |-> <<[method |-> "POST", path |-> <<"fhir", "r4", "Encounter", "$admit">>,
                endpoint |-> "admit_patient"],
               [method |-> "POST",
                path |-> <<"fhir", "r4", "Encounter", "{}", "$transfer">>,
                endpoint |-> "transfer_patient"],
               [method |-> "POST",
                path |-> <<"fhir", "r4", "Encounter", "{}", "$discharge">>,
                endpoint |-> "discharge_patient"],
               [method |-> "POST", path |-> <<"fhir", "r4", "Patient", "$register">>,
                endpoint |-> "register_patient"]>>,
     billing |-> <<[method |-> "POST", path |-> <<"fhir", "r4", "Coverage">>,
                    endpoint |-> "create_coverage"],
                   [method |-> "POST", path |-> <<"fhir", "r4", "ChargeItem">>,
                    endpoint |-> "post_charge"]>>]

\* (variant: the service's own routes are registered before the generic ones)
RoutesOwnFirst(service) == OwnRoutes[service] \o GenericRoutes

\* app.routes of a service
Routes(service) == GenericRoutes \o OwnRoutes[service]

\* Route.matches: the method, and the path regex ("{}" is one segment)
FullMatch(route, method, path) ==
    /\ route.method = method
    /\ Len(route.path) = Len(path)
    /\ \A k \in 1..Len(path) : route.path[k] \in {"{}", path[k]}

\* Router.__call__: the first route that matches in full serves the request
Resolve(routes, method, path) ==
    IF \E k \in 1..Len(routes) : FullMatch(routes[k], method, path)
    THEN routes[CHOOSE k \in 1..Len(routes) :
                   /\ FullMatch(routes[k], method, path)
                   /\ \A j \in 1..(k - 1) : ~FullMatch(routes[j], method, path)].endpoint
    ELSE "not_found"

\* The endpoint function that serves the request in the service's app
Endpoint(service, method, path) == Resolve(Routes(service), method, path)

\* session.query(FHIRResourceStore).filter(resource_type == .., id == ..).first()
\* on a service's table
First(tbl, resource_type, resource_id) ==
    IF \E k \in 1..Len(tbl) :
          tbl[k].id = resource_id /\ tbl[k].resource_type = resource_type
    THEN RowOf(tbl, resource_id)
    ELSE NoRow

\* session.add(resource); session.commit() of create_resource
Created(tbl, resource_type, data) ==
    Append(tbl, SRow(data["id"], resource_type, <<"1">>,
                     CreateData(resource_type, data["id"], data, "t1")))

\* resource.data = data; resource.version_id = new_version; session.commit():
\* the new tuple version goes to the end of the heap
Updated(tbl, resource_type, resource_id, version_id, data) ==
    Append(Without(tbl, resource_id),
           SRow(resource_id, resource_type, NewVersion(version_id),
                UpdateData(resource_type, resource_id, NewVersion(version_id),
                           data, "t1")))

\* uuid.uuid4() draws of the services, in the order drawn
UuidNames == <<"u1", "u2", "u3", "u4", "u5", "u6", "u7", "u8", "u9", "u10",
               "u11", "u12", "u13", "u14", "u15">>

uuid4(k) == UuidNames[uuids + k]

\* Rows the clinical services hold when the workflows start: what setup()
\* seeded (PAS a location, Pharmacy a medication: one of each list) and
\* what arrived through POST /fhir/r4/{resource_type}: a lab order, an
\* imaging order, a prescription with one refill and one without
\* dispenseRequest.
Seeded(resource_type, i) ==
    SRow(i, resource_type, <<"1">>,
         CreateData(resource_type, i, [id |-> i, status |-> "active"], "t1"))

Order ==
    CreateData("ServiceRequest", "o1",
               [status |-> "active",
                subject |-> [reference |-> <<"Patient", "/", "p", "1">>]], "t1")

Prescription(i, refills) ==
    CreateData("MedicationRequest", i,
               IF refills = 0 THEN [status |-> "active"]
               ELSE [status |-> "active",
                     dispenseRequest |-> [numberOfRepeatsAllowed |-> refills]],
               "t1")

SeedTables ==
    [NoTables EXCEPT
        !.pas = <<Seeded("Location", "loc-icu")>>,
        !.lis = <<SRow("o1", "ServiceRequest", <<"1">>, Order)>>,
        !.ris = <<SRow("o1", "ServiceRequest", <<"1">>, Order)>>,
        !.pharmacy = <<Seeded("Medication", "med-197361"),
                       SRow("rx1", "MedicationRequest", <<"1">>, Prescription("rx1", 1)),
                       SRow("rx2", "MedicationRequest", <<"1">>, Prescription("rx2", 0))>>]

\* What the workflow steps leave alone
flowKept == <<store, gen, updates, rabbitmq_channel, table, inserted, answer,
              writes, routerVars>>

\* A request accepted by a service: the endpoint function's frame
Call(service, endpoint, resource_type, resource_id) ==
    [n |-> nops + 1, service |-> service, op |-> endpoint, pc |-> "idle",
     resource_type |-> resource_type, resource_id |-> resource_id,
     data |-> NoDoc, version_id |-> <<>>, event_type |-> <<>>,
     resource |-> NoDoc, status |-> 200, reply |-> NoDoc]

\* The router shares nothing with the services but the exchange: it is
\* followed taking each event as soon as it is published.
Drained == handled = Len(published)

Accepted(p) ==
    /\ Drained
    /\ reqs[p].pc = "idle"
    /\ \A q \in Procs : q < p => InFlight(q)
    /\ nops < MaxCalls
    /\ nops' = nops + 1

\* The endpoint function reaches `await service.publish_event(..)`.
AwaitPublish(p, r, event_type, resource, status, reply) ==
    /\ reqs' = [reqs EXCEPT ![p] =
           [r EXCEPT !.pc = "publish", !.event_type = event_type,
                     !.resource = resource, !.status = status, !.reply = reply]]
    /\ UNCHANGED <<response, published>>

\* publish_event and the return of the endpoint function
FlowPublish(p) ==
    /\ Drained
    /\ reqs[p].pc = "publish"
    /\ LET r == reqs[p]
       IN /\ published' =
                IF rabbitmq_channel
                THEN Append(published,
                            Published(r.service, r.event_type, r.resource,
                                      Len(published) + 1, r.op))
                ELSE published
          /\ response' = Respond(r, r.status, r.reply)
    /\ reqs' = [reqs EXCEPT ![p] = IdleReq]
    /\ UNCHANGED <<db, uuids, nops, overlapped, flowKept>>

\* create_fhir_app.create_resource: POST /fhir/r4/{resource_type}
create_resource(p, service, resource_type, data) ==
    LET r == Call(service, "create_resource", resource_type, Absent)
        resource_id == ResourceId(data, uuid4(1))
        result == CreateData(resource_type, resource_id, data, "t1")
    IN IF resource_type \notin Catalogue[service]
       THEN /\ Raise(p, r, 400)
            /\ UNCHANGED <<db, uuids, published>>
       ELSE /\ uuids' = uuids + (IF resource_id = uuid4(1) THEN 1 ELSE 0)
            /\ IF \E k \in 1..Len(db[service]) : db[service][k].id = resource_id
               THEN \* IntegrityError on the primary key
                    /\ Raise(p, r, 500)
                    /\ UNCHANGED <<db, published>>
               ELSE /\ db' = [db EXCEPT ![service] =
                                 Created(@, resource_type, result)]
                    /\ AwaitPublish(p, [r EXCEPT !.resource_id = resource_id,
                                                 !.data = result],
                                    <<"created">>, result, 201, result)

\* the charge dict of post_charge
Charge(charge_id, charge_data) ==
    [resourceType |-> "ChargeItem", id |-> charge_id, status |-> "billable",
     code |-> Get(charge_data, "code"), subject |-> Get(charge_data, "subject"),
     quantity |-> [value |-> IF Has(charge_data, "quantity")
                             THEN charge_data["quantity"] ELSE 1]]

\* billing post_charge
post_charge(p, charge_data) ==
    LET r == Call("billing", "post_charge", "ChargeItem", uuid4(1))
        charge == CreateData("ChargeItem", uuid4(1),
                             Charge(uuid4(1), charge_data), "t1")
    IN /\ uuids' = uuids + 1
       /\ db' = [db EXCEPT !.billing = Created(@, "ChargeItem", charge)]
       /\ AwaitPublish(p, [r EXCEPT !.data = charge], <<"charge", "posted">>,
                       charge, 200,
                       [message |-> "Charge posted",
                        chargeItem |-> <<"ChargeItem", "/", uuid4(1)>>])

\* POST /fhir/r4/ChargeItem on the Billing service, served by the endpoint
\* function the app's routes resolve it to
PostChargeItem(p, charge_data) ==
    /\ Accepted(p)
    /\ LET endpoint == Endpoint("billing", "POST", <<"fhir", "r4", "ChargeItem">>)
       IN CASE endpoint = "create_resource" ->
                   create_resource(p, "billing", "ChargeItem", charge_data)
            [] endpoint = "post_charge" -> post_charge(p, charge_data)
    /\ UNCHANGED <<overlapped, flowKept>>

\* Request bodies of POST /fhir/r4/ChargeItem
Charges == {[code |-> [coding |-> <<[code |-> <<"99213">>]>>],
             subject |-> [reference |-> <<"Patient", "/", "p", "1">>]]}

\* PAS: hospital locations a patient is admitted or moved to
Locations == {"loc-icu", "loc-er"}

\* One entry of Encounter.location
Stay(location_id, status) ==
    [location |-> [reference |-> <<"Location", "/", location_id>>],
     status |-> status, period |-> [start |-> "t1"]]

\* the encounter dict of admit_patient
Admission(encounter_id, patient_id, location_id) ==
    [resourceType |-> "Encounter", id |-> encounter_id, status |-> "in-progress",
     subject |-> [reference |-> <<"Patient", "/", patient_id>>],
     period |-> [start |-> "t1"],
     location |-> <<Stay(location_id, "active")>>]

\* for loc in encounter.get("location", []): an active entry is completed
\* and its period ended
EndStays(location) ==
    [k \in 1..Len(location) |->
        IF Has(location[k], "status") /\ location[k].status = "active"
        THEN [location[k] EXCEPT !.status = "completed",
                                 !.period = Put(@, "end", "t1")]
        ELSE location[k]]

\* (variant: the current location is left active)
TransferredKeepsStay(encounter, new_location_id) ==
    [encounter EXCEPT !.location = Append(@, Stay(new_location_id, "active"))]

\* transfer_patient on the dict it read
Transferred(encounter, new_location_id) ==
    [encounter EXCEPT !.location =
        Append(EndStays(@), Stay(new_location_id, "active"))]

\* discharge_patient on the dict it read
Discharged(encounter, disposition) ==
    Put([encounter EXCEPT !.status = "finished",
                          !.period = Put(@, "end", "t1"),
                          !.location = EndStays(@)],
        "hospitalization",
        Put(IF Has(encounter, "hospitalization") THEN encounter["hospitalization"]
            ELSE <<>>,
            "dischargeDisposition", [coding |-> <<[code |-> disposition]>>]))

\* the dict an ADT event is published with (it has no resourceType)
Adt(event_type, field, resource) ==
    [f \in {"eventType", field} |-> IF f = field THEN resource ELSE event_type]

\* POST /fhir/r4/Encounter/$admit
admit_patient(p, patient_id, location_id) ==
    /\ Accepted(p)
    /\ Endpoint("pas", "POST", <<"fhir", "r4", "Encounter", "$admit">>)
          = "admit_patient"
    /\ LET encounter_id == uuid4(1)
           r == Call("pas", "admit_patient", "Encounter", encounter_id)
           encounter == CreateData("Encounter", encounter_id,
                                   Admission(encounter_id, patient_id, location_id),
                                   "t1")
       IN /\ uuids' = uuids + 1
          /\ db' = [db EXCEPT !.pas = Created(@, "Encounter", encounter)]
          /\ AwaitPublish(p, [r EXCEPT !.data = encounter], <<"adt", "a01">>,
                          Adt("A01", "encounter", encounter), 200,
                          [message |-> "Patient admitted",
                           encounter |-> <<"Encounter", "/", encounter_id>>])
    /\ UNCHANGED <<overlapped, flowKept>>

\* transfer_patient and discharge_patient up to service.update_resource:
\* read_resource (404 when the encounter is not there) and the changes to
\* the dict
ReadEncounter(p, endpoint, encounter_id, argument) ==
    /\ Accepted(p)
    /\ LET r == Call("pas", endpoint, "Encounter", encounter_id)
           row == First(db.pas, "Encounter", encounter_id)
       IN IF row = NoRow
          THEN /\ Raise(p, r, 404)
               /\ UNCHANGED overlapped
          ELSE /\ reqs' = [reqs EXCEPT ![p] =
                      [r EXCEPT !.pc = "update_query",
                                !.data = IF endpoint = "transfer_patient"
                                         THEN Transferred(row.data, argument)
                                         ELSE Discharged(row.data, argument)]]
               /\ overlapped' = overlapped \cup Meets(p, encounter_id)
               /\ UNCHANGED response
    /\ UNCHANGED <<db, uuids, published, flowKept>>

\* POST /fhir/r4/Encounter/{encounter_id}/$transfer
transfer_patient(p, encounter_id, new_location_id) ==
    /\ Endpoint("pas", "POST", <<"fhir", "r4", "Encounter", encounter_id, "$transfer">>)
          = "transfer_patient"
    /\ ReadEncounter(p, "transfer_patient", encounter_id, new_location_id)

\* POST /fhir/r4/Encounter/{encounter_id}/$discharge
discharge_patient(p, encounter_id, disposition) ==
    /\ Endpoint("pas", "POST", <<"fhir", "r4", "Encounter", encounter_id, "$discharge">>)
          = "discharge_patient"
    /\ ReadEncounter(p, "discharge_patient", encounter_id, disposition)

\* update_resource called by an endpoint function: the SELECT
UpdateSelect(p) ==
    /\ Drained
    /\ reqs[p].pc = "update_query"
    /\ LET r == reqs[p]
           row == First(db[r.service], r.resource_type, r.resource_id)
       IN IF row = NoRow
          THEN Raise(p, r, 404)
          ELSE /\ reqs' = [reqs EXCEPT ![p] =
                      [r EXCEPT !.pc = "update_commit",
                                !.version_id = row.version_id]]
               /\ UNCHANGED response
    /\ UNCHANGED <<db, uuids, nops, published, overlapped, flowKept>>

\* update_resource called by an endpoint function: the dict's id,
\* resourceType and meta, the UPDATE and the commit; then the endpoint
\* function goes on to publish its ADT event
UpdateFlush(p) ==
    /\ Drained
    /\ reqs[p].pc = "update_commit"
    /\ LET r == reqs[p]
           encounter == UpdateData(r.resource_type, r.resource_id,
                                   NewVersion(r.version_id), r.data, "t1")
       IN IF First(db[r.service], r.resource_type, r.resource_id) = NoRow
          THEN \* StaleDataError: the UPDATE matched no row
               /\ Raise(p, r, 500)
               /\ UNCHANGED <<db, published>>
          ELSE /\ db' = [db EXCEPT ![r.service] =
                           Updated(@, r.resource_type, r.resource_id,
                                   r.version_id, r.data)]
               /\ IF r.op = "transfer_patient"
                  THEN AwaitPublish(p, [r EXCEPT !.data = encounter],
                                    <<"adt", "a02">>,
                                    Adt("A02", "encounter", encounter), 200,
                                    [message |-> "Patient transferred",
                                     encounter |-> <<"Encounter", "/", r.resource_id>>])
                  ELSE AwaitPublish(p, [r EXCEPT !.data = encounter],
                                    <<"adt", "a03">>,
                                    Adt("A03", "encounter", encounter), 200,
                                    [message |-> "Patient discharged",
                                     encounter |-> <<"Encounter", "/", r.resource_id>>])
    /\ UNCHANGED <<uuids, nops, overlapped, flowKept>>

\* POST /fhir/r4/Patient/$register
register_patient(p, patient_data) ==
    /\ Accepted(p)
    /\ Endpoint("pas", "POST", <<"fhir", "r4", "Patient", "$register">>)
          = "register_patient"
    /\ LET r == Call("pas", "register_patient", "Patient", Absent)
           resource_id == ResourceId(patient_data, uuid4(1))
           registered ==
               Put(patient_data, "identifier",
                   Append(IF Has(patient_data, "identifier")
                          THEN patient_data["identifier"] ELSE <<>>,
                          [use |-> "usual", value |-> <<"MRN">>]))
           patient == CreateData("Patient", resource_id, registered, "t1")
       IN /\ uuids' = uuids + (IF resource_id = uuid4(1) THEN 1 ELSE 0)
          /\ IF \E k \in 1..Len(db.pas) : db.pas[k].id = resource_id
             THEN /\ Raise(p, r, 500)
                  /\ UNCHANGED <<db, published>>
             ELSE /\ db' = [db EXCEPT !.pas = Created(@, "Patient", patient)]
                  /\ AwaitPublish(p, [r EXCEPT !.resource_id = resource_id,
                                               !.data = patient],
                                  <<"adt", "a04">>,
                                  Adt("A04", "patient", patient), 200,
                                  [message |-> "Patient registered",
                                   patient |-> <<"Patient", "/", resource_id>>])
    /\ UNCHANGED <<overlapped, flowKept>>

\* Request bodies of POST /fhir/r4/Patient/$register
Registrations == {[name |-> "n"]}

\* Rows of a table with their ids
RowIds(tbl, resource_type) ==
    {tbl[k].id : k \in {j \in 1..Len(tbl) : tbl[j].resource_type = resource_type}}

\* the report dict of process_lab_order and complete_imaging_study
Report(report_id, order_id, order, category) ==
    [resourceType |-> "DiagnosticReport", id |-> report_id,
     basedOn |-> <<[reference |-> <<"ServiceRequest", "/", order_id>>]>>,
     status |-> "final", category |-> category,
     code |-> Get(order, "code"), subject |-> Get(order, "subject")]

\* order = service.read_resource("ServiceRequest", order_id), where found
Read(service, order_id) == First(db[service], "ServiceRequest", order_id).data

\* An endpoint function that reads an order, stores what it produced from
\* it (the documents docs, the report last), sets the order completed
\* through update_resource and publishes the report as `completed`.  It
\* runs without suspension up to the publish.
CompleteOrder(p, service, endpoint, order_id, docs, message) ==
    LET r == Call(service, endpoint, "ServiceRequest", order_id)
        row == First(db[service], "ServiceRequest", order_id)
    IN IF row = NoRow
       THEN /\ Raise(p, r, 404)
            /\ UNCHANGED <<db, uuids, published>>
       ELSE LET stored == [k \in 1..Len(docs) |->
                             CreateData(docs[k].resourceType, docs[k].id,
                                        docs[k], "t1")]
                report == stored[Len(stored)]
                RECURSIVE Store(_, _)
                Store(tbl, k) ==
                    IF k > Len(stored) THEN tbl
                    ELSE Store(Created(tbl, stored[k].resourceType, stored[k]), k + 1)
                order == [row.data EXCEPT !.status = "completed"]
            IN /\ uuids' = uuids + Len(docs)
               /\ db' = [db EXCEPT ![service] =
                            Updated(Store(@, 1), "ServiceRequest", order_id,
                                    row.version_id, order)]
               /\ AwaitPublish(p, [r EXCEPT !.data = report], <<"completed">>,
                               report, 200,
                               [message |-> message,
                                diagnosticReport |->
                                    <<"DiagnosticReport", "/", report.id>>])

\* POST /fhir/r4/ServiceRequest/{order_id}/$process on LIS (a panel of one
\* test)
process_lab_order(p, order_id) ==
    /\ Accepted(p)
    /\ Endpoint("lis", "POST", <<"fhir", "r4", "ServiceRequest", order_id, "$process">>)
          = "process_lab_order"
    /\ LET order == Read("lis", order_id)
       IN CompleteOrder(p, "lis", "process_lab_order", order_id,
             <<[resourceType |-> "Specimen", id |-> uuid4(1), status |-> "available",
                subject |-> Get(order, "subject")],
               [resourceType |-> "Observation", id |-> uuid4(2), status |-> "final",
                subject |-> Get(order, "subject"),
                specimen |-> [reference |-> <<"Specimen", "/", uuid4(1)>>]],
               Report(uuid4(3), order_id, order, "LAB")>>,
             "Lab order processed")
    /\ UNCHANGED <<overlapped, flowKept>>

\* POST /fhir/r4/ServiceRequest/{order_id}/$complete on RIS
complete_imaging_study(p, order_id) ==
    /\ Accepted(p)
    /\ Endpoint("ris", "POST", <<"fhir", "r4", "ServiceRequest", order_id, "$complete">>)
          = "complete_imaging_study"
    /\ LET order == Read("ris", order_id)
       IN CompleteOrder(p, "ris", "complete_imaging_study", order_id,
             <<[resourceType |-> "ImagingStudy", id |-> uuid4(1),
                status |-> "available", subject |-> Get(order, "subject")],
               Report(uuid4(2), order_id, order, "RAD")>>,
             "Imaging study completed")
    /\ UNCHANGED <<overlapped, flowKept>>

\* repeats_allowed = rx.get("dispenseRequest", {}).get("numberOfRepeatsAllowed", 0)
repeats_allowed(rx) ==
    IF Has(rx, "dispenseRequest") /\ Has(rx["dispenseRequest"], "numberOfRepeatsAllowed")
    THEN rx["dispenseRequest"]["numberOfRepeatsAllowed"] ELSE 0

\* the dispense dict of dispense_medication
Dispense(dispense_id, request_id, rx) ==
    [resourceType |-> "MedicationDispense", id |-> dispense_id,
     status |-> "completed", subject |-> Get(rx, "subject"),
     authorizingPrescription |->
         <<[reference |-> <<"MedicationRequest", "/", request_id>>]>>]

\* existing = service.search_resources("MedicationDispense",
\*                                     {"prescription": request_id})
Existing(tbl, request_id) ==
    search_resources(tbl, "MedicationDispense", [prescription |-> <<request_id>>],
                     100, 0, "seq")

\* POST /fhir/r4/MedicationRequest/{request_id}/$dispense on Pharmacy; it
\* runs without suspension up to the publish
dispense_medication(p, request_id) ==
    /\ Accepted(p)
    /\ Endpoint("pharmacy", "POST",
                <<"fhir", "r4", "MedicationRequest", request_id, "$dispense">>)
          = "dispense_medication"
    /\ LET r == Call("pharmacy", "dispense_medication", "MedicationRequest",
                     request_id)
           row == First(db.pharmacy, "MedicationRequest", request_id)
       IN IF row = NoRow
          THEN /\ Raise(p, r, 404)
               /\ UNCHANGED <<db, uuids, published>>
          ELSE LET rx == row.data
                   dispense_id == uuid4(1)
                   dispense == CreateData("MedicationDispense", dispense_id,
                                          Dispense(dispense_id, request_id, rx),
                                          "t1")
                   dispensed == Created(db.pharmacy, "MedicationDispense", dispense)
                   existing == Existing(dispensed, request_id)
               IN /\ uuids' = uuids + 1
                  /\ db' = [db EXCEPT !.pharmacy =
                               IF Len(existing.entry) >= repeats_allowed(rx) + 1
                               THEN Updated(dispensed, "MedicationRequest",
                                            request_id, row.version_id,
                                            [rx EXCEPT !.status = "completed"])
                               ELSE dispensed]
                  /\ AwaitPublish(p, [r EXCEPT !.data = dispense], <<"dispensed">>,
                                  dispense, 200,
                                  [message |-> "Medication dispensed",
                                   medicationDispense |->
                                       <<"MedicationDispense", "/", dispense_id>>])
    /\ UNCHANGED <<overlapped, flowKept>>

\* The broker hands the next event of exchange healthcare.events to the
\* router's consumer (queue integration.engine is bound with "#"); the
\* body is the envelope as JSON.
Deliver(t) ==
    /\ handled < Len(published)
    /\ LET event == published[handled + 1]
       IN OnMessage(t, event.routing_key,
                    [kind |-> "object",
                     json |-> [type |-> event.type, source |-> event.source,
                               id |-> event.id]],
                    0)

\* The services connected to the broker, with the rows above, and the
\* router with its default rules and no Redis.
FlowInit ==
    /\ RouterIdle /\ redis_client = FALSE
    /\ SearchIdle
    /\ store = [i \in AllIds |-> NoRow]
    /\ gen = [i \in AllIds |-> 0]
    /\ updates = [i \in AllIds |-> 0]
    /\ reqs = [p \in Procs |-> IdleReq]
    /\ response = NoResponse
    /\ published = <<>>
    /\ rabbitmq_channel = TRUE
    /\ uuids = 0
    /\ nops = 0
    /\ overlapped = {}
    /\ db = SeedTables

FlowNext ==
    \/ \E p \in Procs, charge_data \in Charges : PostChargeItem(p, charge_data)
    \/ \E p \in Procs, location_id \in Locations : admit_patient(p, "p1", location_id)
    \/ \E p \in Procs, encounter_id \in RowIds(db.pas, "Encounter"),
          new_location_id \in Locations :
          transfer_patient(p, encounter_id, new_location_id)
    \/ \E p \in Procs, encounter_id \in RowIds(db.pas, "Encounter") :
          discharge_patient(p, encounter_id, "home")
    \/ \E p \in Procs, patient_data \in Registrations :
          register_patient(p, patient_data)
    \/ \E p \in Procs : UpdateSelect(p)
    \/ \E p \in Procs : UpdateFlush(p)
    \/ \E p \in Procs : process_lab_order(p, "o1")
    \/ \E p \in Procs : complete_imaging_study(p, "o1")
    \/ \E p \in Procs, request_id \in {"rx1", "rx2"} :
          dispense_medication(p, request_id)
    \/ \E p \in Procs : FlowPublish(p)
    \/ \E t \in RTasks : Deliver(t)

\* The clinical services' workflows and the router behind them
FlowSpec == FlowInit /\ [][FlowNext]_vars

(* ------------------------------------------------------------------ *)
(* Properties                                                           *)
(* ------------------------------------------------------------------ *)

ServerFields == {"id", "resourceType", "meta"}

\* Handler p's update commits in this step (its UPDATE matched a row).
UpdateCommits(p) ==
    /\ reqs[p].pc = "update_commit"
    /\ reqs'[p].pc # "update_commit"
    /\ updates'[reqs[p].resource_id] = updates[reqs[p].resource_id] + 1

\* A response is sent in this step.
Responds == response'.n # response.n

\* The request answered in this step also arrived in it.
RespondsAtOnce == Responds /\ nops' = nops + 1 /\ response'.n = nops'

\* C1: every update that commits stores and returns versionId
\* str(int(v) + 1), v the versionId its query read; on a resource whose
\* requests never overlapped v is the stored versionId, and after a create
\* and k committed updates the stored versionId is str(k + 1).
C1_UpdateIncrementsVersion ==
    [][\A p \in Procs :
          UpdateCommits(p) =>
            LET rid == reqs[p].resource_id
                v == reqs[p].version_id
            IN /\ store'[rid].version_id = str(int(v) + 1)
               /\ store'[rid].data["meta"].versionId = str(int(v) + 1)
               /\ reqs[p].data["meta"].versionId = str(int(v) + 1)
               /\ rid \notin overlapped =>
                    /\ v = store[rid].version_id
                    /\ store'[rid].version_id = str(updates'[rid] + 1)]_vars

\* C1 witness: two updates, one after the other, took the seeded row to "3".
C1_Witness ==
    /\ "a" \notin overlapped
    /\ store["a"] # NoRow
    /\ updates["a"] = 2
    /\ store["a"].version_id = <<"3">>
    /\ response.op = "update" /\ response.status = 200
    /\ response.body["meta"].versionId = <<"3">>

\* The id of the row inserted in this step.
Inserted == {i \in AllIds : gen'[i] # gen[i]}

\* What C2 says of create(t, d) and the read that follows it, for the
\* rows in ids.
ReadBackIsInput(t, d, ids) ==
    \A i \in ids :
      LET got == read_resource(store', t, i)
      IN /\ got.status = 200
         /\ DOMAIN got.body = (DOMAIN d) \cup ServerFields
         /\ \A f \in (DOMAIN d) \ ServerFields : got.body[f] = d[f]
         /\ got.body["id"] = i
         /\ IF Has(d, "id") /\ d["id"] # "" THEN i = d["id"]
            ELSE i = UuidPool[uuids'] /\ store[i] = NoRow
         /\ got.body["resourceType"] = t
         /\ got.body["meta"].versionId = <<"1">>
         /\ DOMAIN got.body["meta"] = {"versionId", "lastUpdated"}

C3_KeyedByTypeAndId ==
    [][\A p \in Procs, t \in supported_resources, d \in Docs :
          CreateResource(p, t, d) =>
            /\ \A i \in AllIds : store[i] # NoRow => store'[i] = store[i]
            /\ (Has(d, "id") /\ d["id"] # "" /\ Query(store, t, d["id"]) = NoRow)
                 => Query(store', t, d["id"]) # NoRow]_vars

\* The request that arrives in this step: its handler's record if it is
\* left in flight, the response if it is answered at once.
Arrived ==
    IF \E p \in Procs : reqs'[p].n = nops'
    THEN reqs'[CHOOSE p \in Procs : reqs'[p].n = nops']
    ELSE response'

\* The request that arrives in this step is refused with `status` and
\* leaves no trace: no row changes, nothing is published or left pending.
Refused(status) ==
    /\ RespondsAtOnce
    /\ response'.status = status
    /\ store' = store
    /\ published' = published
    /\ reqs' = reqs

\* C4: a create of an unsupported type is refused with 400, an update or a
\* delete of a (type, id) that is not stored with 404; a request answered
\* 400 or 404 changed no row and no version, published nothing and left
\* nothing pending.
C4_FailureHasNoEffect ==
    [][/\ nops' = nops + 1 =>
            /\ (Arrived.op = "create"
                  /\ Arrived.resource_type \notin supported_resources)
                 => Refused(400)
            /\ (Arrived.op \in {"update", "delete"}
                  /\ Query(store, Arrived.resource_type, Arrived.resource_id) = NoRow)
                 => Refused(404)
       /\ (Responds /\ response'.status \in {400, 404})
            => store' = store /\ published' = published]_vars

\* C4 witness: an update of a missing resource was answered 404 after a
\* create of an unsupported type had been answered 400.
C4_Witness ==
    /\ response.op = "update" /\ response.status = 404
    /\ nops = 2
    /\ store = [i \in AllIds |-> IF i = "a" THEN SeedRow ELSE NoRow]
    /\ published = <<>>

\* C5: an update replaces the document: the dict the handler stores has
\* the body's fields and the server's id, resourceType and meta, the body's
\* other fields unchanged; the commit stores exactly that dict, so a field
\* of the old document the body lacks is gone.
C5_UpdateReplaces ==
    [][/\ \A p \in Procs :
            (reqs[p].pc = "idle" /\ reqs'[p].pc = "update_commit") =>
              \A d \in Docs :
                UpdateQuery(p, reqs'[p].resource_type, reqs'[p].resource_id, d) =>
                  LET doc == reqs'[p].data
                  IN /\ DOMAIN doc = (DOMAIN d) \cup ServerFields
                     /\ \A f \in (DOMAIN d) \ ServerFields : doc[f] = d[f]
                     /\ doc["id"] = reqs'[p].resource_id
                     /\ doc["resourceType"] = reqs'[p].resource_type
       /\ \A p \in Procs :
            UpdateCommits(p) =>
              LET rid == reqs[p].resource_id
              IN /\ store'[rid].data = reqs[p].data
                 /\ \A f \in DOMAIN store[rid].data :
                      f \notin DOMAIN reqs[p].data
                         => f \notin DOMAIN store'[rid].data]_vars

\* C5 witness: an update of the seeded Patient that sent only name dropped
\* its gender.
C5_Witness ==
    /\ store["a"] # NoRow
    /\ updates["a"] = 1
    /\ Has(store["a"].data, "name")
    /\ ~Has(store["a"].data, "gender")

\* An id that was stored and is not now: deleted and not created again.
Deleted(i) == gen[i] >= 1 /\ store[i] = NoRow

\* C6: a delete answered 204 leaves no row under its id; while no create
\* brings the id back the row stays away, a read or an update arriving for
\* it is answered 404 at once, and no search result holds its document.
C6_DeletedStaysDeleted ==
    [][/\ (Responds /\ response'.op = "delete" /\ response'.status = 204)
            => store'[response'.resource_id] = NoRow
       /\ \A i \in AllIds :
            (Deleted(i) /\ gen'[i] = gen[i]) =>
              /\ store'[i] = NoRow
              /\ \A t \in ResourceTypes :
                   /\ read_resource(store', t, i).status = 404
                   /\ \A doc \in SearchBundle(store', t).entry : doc["id"] # i
              /\ \A p \in Procs :
                   (reqs'[p] # reqs[p] /\ reqs'[p].resource_id = i)
                      => reqs'[p].pc = "idle"
              /\ (RespondsAtOnce /\ response'.op \in {"read", "update"}
                    /\ response'.resource_id = i) => response'.status = 404
              /\ (Responds /\ response'.op = "search") =>
                    \A doc \in response'.body.entry : doc["id"] # i]_vars

\* C6 witness: an update of the deleted seed row was answered 404.
C6_Witness ==
    /\ Deleted("a")
    /\ response.op = "update" /\ response.status = 404
    /\ response.resource_id = "a"

\* C7 (as claimed): every stored document's id, resourceType and
\* meta.versionId are the key, the type and the version of its row.
C7_DocumentMatchesRow ==
    \A i \in AllIds :
        store[i] # NoRow =>
          /\ store[i].data["id"] = i
          /\ store[i].data["resourceType"] = store[i].resource_type
          /\ store[i].data["meta"].versionId = store[i].version_id

\* C8: an update is never refused because another write came between its
\* read and its commit: while a row of its type holds the id the commit
\* succeeds, whatever version the row has by then, and leaves exactly the
\* document this request submitted.
C8_LastWriteWins ==
    [][\A p \in Procs :
          (/\ reqs[p].pc = "update_commit"
           /\ reqs'[p].pc # "update_commit"
           /\ Query(store, reqs[p].resource_type, reqs[p].resource_id) # NoRow) =>
             LET rid == reqs[p].resource_id
             IN /\ updates'[rid] = updates[rid] + 1
                /\ store'[rid].data = reqs[p].data
                /\ store'[rid].version_id = str(int(reqs[p].version_id) + 1)
                /\ (Responds /\ response'.n = reqs[p].n) => response'.status = 200
                /\ ~Responds => reqs'[p].pc = "publish"]_vars

\* C8 witness: two updates of the seeded row both committed and both were
\* answered with versionId "2"; the row holds one of the two documents.
C8_Witness ==
    /\ updates["a"] = 2
    /\ store["a"] # NoRow
    /\ store["a"].version_id = <<"2">>
    /\ Len(published) = 2
    /\ \A k \in 1..2 :
          /\ published[k].routing_key = <<"ehr", "patient", "updated">>
          /\ published[k].data["meta"].versionId = <<"2">>
    /\ published[1].data # published[2].data
    /\ store["a"].data \in {published[1].data, published[2].data}
    /\ \A p \in Procs : reqs[p].pc = "idle"

\* The routing key's middle segment for a resource type.
TopicSegment(resource_type) ==
    CASE resource_type = "Patient" -> "patient"
      [] resource_type = "Observation" -> "observation"

\* C9: with a channel, the step that answers a create 201 or an update 200
\* publishes one message, the only one of that request: its routing key is
\* <service>.<lower-cased type>.<created | updated>, its type
\* org.hl7.fhir.r4.<type>.<action>, its source the service, its data the
\* document answered; nothing else publishes.
C9_OneEventPerWrite ==
    [][/\ (/\ rabbitmq_channel
           /\ Responds
           /\ response'.op \in {"create", "update"}
           /\ response'.status \in {200, 201}) =>
             LET e == published'[Len(published')]
                 action == IF response'.op = "create" THEN "created" ELSE "updated"
             IN /\ published' = Append(published, e)
                /\ \A k \in 1..Len(published) : published[k].n # response'.n
                /\ e.n = response'.n
                /\ e.routing_key = <<"ehr", TopicSegment(response'.resource_type), action>>
                /\ e.type = <<"org", "hl7", "fhir", "r4", response'.resource_type, action>>
                /\ e.source = <<"/", "ehr">>
                /\ e.data = response'.body
                /\ e.data["id"] = response'.resource_id
       /\ published' # published =>
             /\ Len(published') = Len(published) + 1
             /\ Responds
             /\ response'.op \in {"create", "update"}
             /\ response'.status \in {200, 201}]_vars

\* C9 witness: a create of a Patient was answered 201 and its created
\* event, carrying the answered document, is the last one published.
C9_Witness ==
    /\ response.op = "create" /\ response.status = 201
    /\ Len(published) >= 1
    /\ published[Len(published)].data = response.body
    /\ published[Len(published)].routing_key = <<"ehr", "patient", "created">>

\* Events k and l are about the same resource (the same row under one id).
SameResource(k, l) ==
    /\ published[k].data["id"] = published[l].data["id"]
    /\ published[k].gen = published[l].gen

\* Event l, published after event k, respects the order of the writes.
InOrder(k, l) ==
    /\ published[l].routing_key[3] # "created"
    /\ (published[k].routing_key[3] = "updated"
          /\ published[l].routing_key[3] = "updated")
         => int(published[k].data["meta"].versionId)
              < int(published[l].data["meta"].versionId)

\* C10 (as claimed): of the events of one resource, created is published
\* before every updated and the updated ones in increasing versionId
\* order, whenever the requests arrive.
C10_EventsInOrder ==
    \A k, l \in 1..Len(published) :
        (k < l /\ SameResource(k, l)) => InOrder(k, l)

\* C10 (amended): the same, for a resource whose requests never overlapped
\* (each arrived after the one before it was answered).
C10_EventsInOrderWhenSequential ==
    \A k, l \in 1..Len(published) :
        (k < l /\ SameResource(k, l)
           /\ published[k].data["id"] \notin overlapped) => InOrder(k, l)

\* C10 witness: a create and then an update of one resource, one request
\* after the other, published created and then updated.
C10_Witness ==
    /\ Len(published) = 2
    /\ SameResource(1, 2)
    /\ published[1].data["id"] \notin overlapped
    /\ published[1].routing_key = <<"ehr", "patient", "created">>
    /\ published[2].routing_key = <<"ehr", "patient", "updated">>
    /\ published[2].data["meta"].versionId = <<"2">>

\* Handler p's publish_event ends in this step, published or raised.
PublishEnds(p) == reqs[p].pc = "publish" /\ reqs'[p].pc = "idle"

\* The success status of a create or an update.
Success(op) == IF op = "create" THEN 201 ELSE 200

\* C11 (as claimed): a create or update that committed is answered 201/200
\* with the stored document whether the service has no channel or the
\* publish raises.
C11_PublishFailureSwallowed ==
    [][/\ \A p \in Procs :
            PublishEnds(p) =>
              /\ response'.n = reqs[p].n
              /\ response'.status = Success(reqs[p].op)
              /\ response'.body = reqs[p].data
       /\ (~rabbitmq_channel /\ (Inserted # {} \/ \E p \in Procs : UpdateCommits(p)))
            => /\ Responds
               /\ response'.status = Success(response'.op)
               /\ response'.body = store'[response'.resource_id].data]_vars

\* C12: the step that ends a publish, published or raised, changes no row;
\* on a resource no other request touched meanwhile the committed document
\* and its versionId are then stored and readable; without a channel the
\* publish is skipped and the answered document is the stored one.
C12_PublishNeverRollsBack ==
    [][/\ \A p \in Procs :
            PublishEnds(p) =>
              /\ store' = store
              /\ reqs[p].resource_id \notin overlapped =>
                   /\ read_resource(store', reqs[p].resource_type,
                                    reqs[p].resource_id)
                        = [status |-> 200, body |-> reqs[p].data]
                   /\ store'[reqs[p].resource_id].version_id
                        = reqs[p].data["meta"].versionId
       /\ (~rabbitmq_channel /\ Responds /\ response'.op \in {"create", "update"}
             /\ response'.status \in {200, 201})
            => /\ store'[response'.resource_id] # NoRow
               /\ store'[response'.resource_id].data = response'.body
               /\ response'.resource_id \notin overlapped =>
                    read_resource(store', response'.resource_type,
                                  response'.resource_id)
                      = [status |-> 200, body |-> response'.body]]_vars

\* C12 witness: a create without an id was answered 500 after its publish
\* raised, nothing was published, and the row it inserted is stored.
C12_Witness ==
    /\ rabbitmq_channel
    /\ response.op = "create" /\ response.status = 500
    /\ response.resource_id = "u1"
    /\ published = <<>>
    /\ store["u1"] # NoRow
    /\ store["u1"].version_id = <<"1">>
    /\ read_resource(store, response.resource_type, "u1").status = 200

\* C13: a message is published only by the handler of a create or an
\* update and is a created or an updated event; a read or a search is
\* answered at once and changes neither the rows nor the messages; no step
\* of a delete publishes.
C13_OnlyWritesPublish ==
    [][/\ published' # published =>
            /\ \E p \in Procs : PublishEnds(p) /\ reqs[p].op \in {"create", "update"}
            /\ \A k \in 1..Len(published') :
                  published'[k].routing_key[3] \in {"created", "updated"}
       /\ (nops' = nops + 1 /\ Arrived.op \in {"read", "search"}) =>
            /\ RespondsAtOnce
            /\ store' = store
            /\ published' = published
            /\ reqs' = reqs
       /\ \A p \in Procs :
            (reqs'[p] # reqs[p] /\ "delete" \in {reqs[p].op, reqs'[p].op})
               => published' = published
       /\ (Responds /\ response'.op \in {"delete", "read", "search"})
            => published' = published]_vars

\* C13 witness: with a channel, a delete of the seeded row was answered 204
\* after two other requests, none of which was a write, and nothing was
\* published.
C13_Witness ==
    /\ rabbitmq_channel
    /\ response.op = "delete" /\ response.status = 204
    /\ nops = 3
    /\ Deleted("a")
    /\ store["u1"] = NoRow /\ uuids = 0
    /\ published = <<>>

(* ------------------------------------------------------------------ *)
(* Properties of search and metadata (under SearchSpec)                 *)
(* ------------------------------------------------------------------ *)

Recognized == {"patient", "subject", "status", "identifier", "category", "code"}

\* The codes of a list of codings.
Codes(codings) ==
    {codings[k]["code"] : k \in {j \in 1..Len(codings) : Has(codings[j], "code")}}

\* What it is for a document to satisfy one recognized parameter.
Satisfies(data, name, v) ==
    CASE name = "patient" ->
            /\ Has(data, "subject") /\ Has(data["subject"], "reference")
            /\ data["subject"]["reference"] = <<"Patient", "/">> \o v
      [] name = "subject" ->
            /\ Has(data, "subject") /\ Has(data["subject"], "reference")
            /\ \E a, b \in 0..Len(data["subject"]["reference"]) :
                  SubSeq(data["subject"]["reference"], a + 1, b) = v
      [] name = "status" -> Has(data, "status") /\ data["status"] = v
      [] name = "identifier" ->
            /\ Has(data, "identifier")
            /\ \E k \in 1..Len(data["identifier"]) :
                  Has(data["identifier"][k], "value")
                    /\ data["identifier"][k]["value"] = v
      [] name = "category" ->
            /\ Has(data, "category")
            /\ \E k \in 1..Len(data["category"]) :
                  Has(data["category"][k], "coding")
                    /\ v \in Codes(data["category"][k]["coding"])
      [] name = "code" ->
            /\ Has(data, "code") /\ Has(data["code"], "coding")
            /\ v \in Codes(data["code"]["coding"])

\* Positions of the stored rows of a type that satisfy every recognized,
\* non-null parameter.
Matching(resource_type, params) ==
    {k \in 1..Len(table) :
        /\ table[k].resource_type = resource_type
        /\ \A name \in (DOMAIN params) \cap Recognized :
              params[name] # None => Satisfies(table[k].data, name, params[name])}

\* Unrecognized and underscore-prefixed parameters a request may carry.
Extras ==
    {("family" :> <<"x">>), ("_id" :> <<"r", "1">>), ("_count" :> <<"1">>),
     ("_id" :> <<"r", "2">>) @@ ("given" :> <<"final">>)}

InInsertionOrder == [k \in 1..Len(inserted) |-> RowOf(table, inserted[k])]

\* The documents of a search's matching rows in insertion order.
MatchingInInsertionOrder(resource_type, params) ==
    LET Hit(r) ==
          /\ r.resource_type = resource_type
          /\ \A name \in (DOMAIN params) \cap Recognized :
                params[name] # None => Satisfies(r.data, name, params[name])
        rows == SelectSeq(InInsertionOrder, Hit)
    IN [k \in 1..Len(rows) |-> rows[k].data]

\* The documents of a bundle's entries.
Resources(bundle) == [k \in 1..Len(bundle.entry) |-> bundle.entry[k].resource]

\* C15 (as claimed): the page of a search is items offset..offset+limit-1
\* of the matching rows in insertion order, and the pages at offsets 0,
\* limit, 2*limit, however each is executed, put together are every
\* matching row once.
C15_PagesInInsertionOrder ==
    answer.op = "search" =>
      LET all == MatchingInInsertionOrder(answer.resource_type, answer.params)
          PageAt(o, plan) ==
             Resources(search_resources(table, answer.resource_type,
                                        answer.params, answer.limit, o, plan))
      IN /\ Resources(answer.body) = Page(all, answer.limit, answer.offset)
         /\ \A p0, p1, p2 \in Plans :
               PageAt(0, p0) \o PageAt(answer.limit, p1)
                 \o PageAt(2 * answer.limit, p2) = all

\* A parameter name the search filters on: some value of it rejects some
\* document.
FiltersOn(name) ==
    \E ps \in Postings, v \in {<<"p", "1">>, <<"final">>, <<"zz">>} :
        ~Accepts(ps[2], name :> v)

\* The names of a capability entry's search parameters.
Advertised(entry) == {entry.searchParam[k] : k \in 1..Len(entry.searchParam)}

\* C16 (as claimed): the capability document has an entry for exactly the
\* supported types, and in each the advertised search parameters are
\* exactly the names search filters on.
C16_CapabilityMatchesSearch ==
    answer.op = "metadata" =>
      /\ DOMAIN answer.body.resource = supported_resources
      /\ \A rt \in DOMAIN answer.body.resource :
            /\ answer.body.resource[rt].type = rt
            /\ \A name \in Advertised(answer.body.resource[rt]) : FiltersOn(name)
            /\ \A name \in Recognized :
                  FiltersOn(name) /\ name \in Advertised(answer.body.resource[rt])

\* ---------------------------------------------------------------------
\* Integration engine: properties of RouterSpec
\* ---------------------------------------------------------------------

\* The positions of the dots of a text, and its segments counted from them.
Dots(text) == {k \in 1..Len(text) : text[k] = "."}

NSegments(text) == Cardinality(Dots(text)) + 1

\* The i-th segment: the symbols with exactly i - 1 dots before them.
Segment(text, i) ==
    LET ks == {k \in (1..Len(text)) \ Dots(text) :
                  Cardinality({d \in Dots(text) : d < k}) = i - 1}
    IN IF ks = {} THEN <<>>
       ELSE SubSeq(text, CHOOSE k \in ks : \A j \in ks : k <= j,
                   CHOOSE k \in ks : \A j \in ks : j <= k)

\* same number of segments, every pattern segment "*" or the topic's
SameShape(topic, pattern) ==
    /\ NSegments(topic) = NSegments(pattern)
    /\ \A i \in 1..NSegments(pattern) :
          \/ Segment(pattern, i) = <<"*">>
          \/ Segment(pattern, i) = Segment(topic, i)

\* Topics and patterns beyond those the router meets: one segment, an empty
\* segment, a "*" in the topic, a prefix, a longer key.
Topics ==
    RoutingKeys \cup DOMAIN DefaultRules \cup
    {<<"pas">>, <<>>, <<"pas", ".", ".", "adt", ".", "a01">>,
     Key4("pas", "*", "adt", "*"), Key4("pas", "encounter", "adt", "*"),
     Key4("pas", "encounter", "order", "a01"), Key4("lis", "encounter", "adt", "a01"),
     <<"pas", ".", "encounter", ".", "adt", ".", "a01", ".", "x">>,
     Key("manual", "test", "message")}

Patterns ==
    DOMAIN DefaultRules \cup {r[1] : r \in NewRules} \cup
    {<<"*">>, Key("*", "*", "*"), <<"pas", ".", ".", "adt", ".", "*">>,
     Key4("*", "encounter", "adt", "a01")}

MatchingTable ==
    \A topic \in Topics, pattern \in Patterns :
       _matches_pattern(topic, pattern) <=> SameShape(topic, pattern)

\* C17: a rule pattern matches a topic exactly when both have the same
\* number of dot-separated segments and every pattern segment is "*" or
\* equal to the topic's segment at that position, for the topics and
\* patterns of MatchingTable, which include every logged routing key and
\* every pattern of the routing table; pas.encounter.adt.a01 matches
\* pas.*.adt.* and the 3-segment pas.encounter.adt does not.
C17_PatternMatching ==
    /\ MatchingTable
    /\ \A k \in 1..Len(message_log) :
          IsText(message_log[k].routing_key) => message_log[k].routing_key \in Topics
    /\ DOMAIN routing_rules \subseteq Patterns
    /\ _matches_pattern(Key4("pas", "encounter", "adt", "a01"),
                        Key4("pas", "*", "adt", "*"))
    /\ ~_matches_pattern(Key("pas", "encounter", "adt"), Key4("pas", "*", "adt", "*"))

\* C17 witness: the log holds pas.encounter.adt.a01 routed to the five
\* destinations of pas.*.adt.* and pas.encounter.adt routed nowhere.
C17_Witness ==
    /\ \E k \in 1..Len(message_log) :
          /\ message_log[k].routing_key = Key4("pas", "encounter", "adt", "a01")
          /\ message_log[k].destinations = <<"ehr", "lis", "ris", "pharmacy", "billing">>
    /\ \E k \in 1..Len(message_log) :
          /\ message_log[k].routing_key = Key("pas", "encounter", "adt")
          /\ message_log[k].status = "completed"
          /\ message_log[k].destinations = <<>>

\* A step in which an event (a JSON object) entered process_message; the
\* entry it appended is the last of the log.
Processes == handled' = handled + 1 /\ consumed'.kind = "object"

Appended == message_log'[Len(message_log')]

Members(seq) == {seq[k] : k \in 1..Len(seq)}

\* C18: the destinations in the log entry of a processed event are exactly
\* the union of the destinations of the rules of the current routing table
\* whose pattern matches the event's topic, each once; an event matching
\* no rule is completed with no destinations and nothing is forwarded.
C18_DestinationsAreUnion ==
    [][Processes /\ IsText(Appended.routing_key) =>
         LET matching == {pattern \in DOMAIN routing_rules :
                             SameShape(Appended.routing_key, pattern)}
         IN /\ Len(message_log') > 0
            /\ Members(Appended.destinations)
                  = UNION {Members(routing_rules[pattern]) : pattern \in matching}
            /\ Cardinality(Members(Appended.destinations)) = Len(Appended.destinations)
            /\ matching = {} =>
                  /\ Appended.status = "completed"
                  /\ Appended.destinations = <<>>
                  /\ stats'.messages_routed = stats.messages_routed]_vars

\* C18 witness: with pas.*.*.* added, pas.encounter.adt.a01 matched two
\* rules that share ehr and was routed to the six destinations, each once;
\* another event matched no rule.
C18_Witness ==
    /\ Key4("pas", "*", "*", "*") \in DOMAIN routing_rules
    /\ \E k \in 1..Len(message_log) :
          /\ message_log[k].routing_key = Key4("pas", "encounter", "adt", "a01")
          /\ message_log[k].status = "completed"
          /\ Members(message_log[k].destinations)
                = {"ehr", "lis", "ris", "pharmacy", "billing", "audit"}
          /\ Len(message_log[k].destinations) = 6
    /\ \E k \in 1..Len(message_log) :
          /\ message_log[k].routing_key = Key("pas", "encounter", "adt")
          /\ message_log[k].destinations = <<>>
    /\ stats.messages_routed = 6

\* C19: the in-memory log never holds more than the cap; its entries are
\* in the order the events were processed (the ids are handed out in that
\* order); an append leaves the earlier entries in place, and an append to
\* a full log drops exactly the oldest entry and keeps the most recent
\* ones.
C19_LogIsCapped ==
    [][/\ Len(message_log') <= LogCap
       /\ \A j, k \in 1..Len(message_log') :
             j < k => message_log'[j].id < message_log'[k].id
       /\ Processes =>
             IF Len(message_log) < LogCap
             THEN /\ Len(message_log') = Len(message_log) + 1
                  /\ SubSeq(message_log', 1, Len(message_log)) = message_log
             ELSE /\ Len(message_log') = LogCap
                  /\ SubSeq(message_log', 1, LogCap - 1)
                        = SubSeq(message_log, 2, LogCap)
                  /\ Appended.id = handled']_vars

\* C19 witness: more events were processed than the log holds; the log is
\* full and its oldest entry is no longer the first event's.
C19_Witness ==
    /\ Len(message_log) = LogCap
    /\ stats.messages_received > LogCap
    /\ message_log[1].id > 1
    /\ message_log[LogCap].id = handled

Added(counter) == stats'[counter] - stats[counter]

\* C21: the counters account for what was processed, step by step:
\* messages_received grows by one exactly in the steps that consume an
\* event, which are the steps that append a log entry; messages_routed
\* grows by the number of destinations of a completed entry and by fewer
\* for an entry in error; errors grows by one exactly when the appended
\* entry is in error; no counter decreases.
C21_CountersAccount ==
    [][/\ Added("messages_received") = (IF message_log' # message_log THEN 1 ELSE 0)
       /\ Processes <=> message_log' # message_log
       /\ Processes =>
             /\ Added("errors") = (IF Appended.status = "error" THEN 1 ELSE 0)
             /\ Appended.status = "completed" =>
                   Added("messages_routed") = Len(Appended.destinations)
             /\ Appended.status = "error" =>
                   Added("messages_routed") <= Len(Appended.destinations)
       /\ ~Processes => Added("errors") = 0 /\ Added("messages_routed") = 0
       /\ \A counter \in DOMAIN stats : Added(counter) >= 0]_vars

\* The step's event raised in matching (its routing key is no text) or in
\* a forward (fewer forwards were counted than it has destinations).
Raised ==
    \/ ~IsText(Appended.routing_key)
    \/ Added("messages_routed")
          < Len(_find_destinations(routing_rules, Appended.routing_key))

RECURSIVE Reverse(_)
Reverse(seq) == IF seq = <<>> THEN <<>> ELSE Append(Reverse(Tail(seq)), Head(seq))

\* C23: whenever no event is being processed, the Redis list holds
\* exactly the entries of the in-memory log, newest first, and no more
\* than the cap, also over a restart of the router.
C23_ListMirrorsLog ==
    (\A t \in RTasks : tasks[t].pc = "idle") =>
       /\ redis_list = Reverse(message_log)
       /\ Len(redis_list) <= LogCap

\* A step of POST /rules that changes the table, and the rule it adds.
AddsRule(rule) ==
    /\ routing_rules' # routing_rules
    /\ routing_rules' = (rule[1] :> rule[2]) @@ routing_rules

\* A step that begins a new life of the process: the log is emptied.
Restarts == message_log # <<>> /\ message_log' = <<>>

\* C24: when add_rule returns, GET /rules maps the pattern to the given
\* destinations and every other pattern as before, and the log and the
\* counters are as they were; the table changes in no other way while the
\* process lives, so every event processed afterwards whose topic matches
\* a pattern of the table has that rule's destinations in its entry; a
\* restart brings the startup rules back.
C24_RulesAreMutable ==
    [][/\ \A rule \in NewRules :
             AddsRule(rule) =>
                /\ get_rules'.rules[rule[1]] = rule[2]
                /\ \A pattern \in DOMAIN routing_rules :
                      pattern # rule[1] =>
                         get_rules'.rules[pattern] = routing_rules[pattern]
                /\ message_log' = message_log
                /\ stats' = stats
       /\ routing_rules' # routing_rules =>
             \/ \E rule \in NewRules : AddsRule(rule)
             \/ routing_rules' = DefaultRules /\ message_log' = <<>>
       /\ Processes /\ IsText(Appended.routing_key) =>
             \A pattern \in DOMAIN routing_rules :
                SameShape(Appended.routing_key, pattern) =>
                   Members(routing_rules[pattern]) \subseteq Members(Appended.destinations)
       /\ Restarts => get_rules'.rules = DefaultRules]_vars

\* C24 witness: an event processed after pas.*.*.* was added went to
\* audit as well (its entry is still in the Redis list); the router has
\* restarted since, the table is the startup table, and a later event
\* with the same topic went to the five startup destinations only.
C24_Witness ==
    /\ get_rules.rules = DefaultRules
    /\ \E k \in 1..Len(redis_list), j \in 1..Len(message_log) :
          /\ redis_list[k].routing_key = Key4("pas", "encounter", "adt", "a01")
          /\ "audit" \in Members(redis_list[k].destinations)
          /\ message_log[j].routing_key = Key4("pas", "encounter", "adt", "a01")
          /\ message_log[j].id > redis_list[k].id
          /\ message_log[j].destinations = <<"ehr", "lis", "ris", "pharmacy", "billing">>

\* The smaller of two numbers.
Min(a, b) == IF a < b THEN a ELSE b

\* C29: GET /messages?limit=N answers, for every N >= 0, with the
\* min(N, length) most recent entries of the log in processing order,
\* never more than N, and with total = the length of the log; the log and
\* the counters are as before.
C29_RecentMessages ==
    [][response'.status = 200 /\ response # response' =>
         LET N == response'.limit
             messages == response'.body.messages
             n == Min(N, Len(message_log))
         IN /\ Len(messages) = n
            /\ Len(messages) <= N
            /\ messages = SubSeq(message_log, Len(message_log) - n + 1, Len(message_log))
            /\ response'.body.total = Len(message_log)
            /\ message_log' = message_log
            /\ stats' = stats]_vars

(* ------------------------------------------------------------------ *)
(* Workflows across the services                                        *)
(* ------------------------------------------------------------------ *)

\* C25 (as claimed): a create of a ServiceRequest through the EHR service
\* is answered 201 and, with a channel, publishes on
\* ehr.servicerequest.created, which the startup rules route to lis and ris.
C25_OrdersFlowFromEhr ==
    [][Responds /\ response'.op = "create"
          /\ response'.resource_type = "ServiceRequest" =>
         /\ service_name = "ehr"
         /\ response'.status = 201
         /\ rabbitmq_channel =>
               /\ Len(published') = Len(published) + 1
               /\ published'[Len(published')].routing_key
                     = <<"ehr", "servicerequest", "created">>
         /\ Members(_find_destinations(DefaultRules,
                                       Key("ehr", "servicerequest", "created")))
               = {"lis", "ris"}]_vars

\* The event the router takes in this step, as the service published it.
Taken == published[handled']

\* C26: when a charge is posted in the Billing service (POST
\* /fhir/r4/ChargeItem), the event it publishes matches the default rule
\* billing.charge.posted and the router routes it to ehr.
C26_ChargesFlowToEhr ==
    [][Processes /\ Taken.source = <<"/", "billing">> =>
         /\ SameShape(Appended.routing_key, Key("billing", "charge", "posted"))
         /\ "ehr" \in Members(Appended.destinations)]_vars

AdtEndpoints ==
    {"admit_patient", "transfer_patient", "discharge_patient", "register_patient"}

ResultEndpoints ==
    {"process_lab_order", "complete_imaging_study", "dispense_medication"}

\* C27: under the default routing table every ADT event published by PAS
\* ($admit, $transfer, $discharge, $register) is routed to exactly ehr,
\* lis, ris, pharmacy and billing, and the result events of LIS $process,
\* RIS $complete and Pharmacy $dispense are each routed to exactly ehr;
\* each of these endpoints publishes one event when it answers 200.
C27_WorkflowEventsRouted ==
    [][/\ Processes /\ Taken.by \in AdtEndpoints =>
            /\ Appended.routing_key = Taken.routing_key
            /\ Appended.status = "completed"
            /\ Members(Appended.destinations)
                  = {"ehr", "lis", "ris", "pharmacy", "billing"}
            /\ Len(Appended.destinations) = 5
       /\ Processes /\ Taken.by \in ResultEndpoints =>
            /\ Appended.routing_key = Taken.routing_key
            /\ Appended.status = "completed"
            /\ Appended.destinations = <<"ehr">>
       /\ /\ Responds
          /\ response'.op \in AdtEndpoints \cup ResultEndpoints
          /\ response'.status = 200
          => /\ Len(published') = Len(published) + 1
             /\ published'[Len(published')].by = response'.op]_vars

\* C27 witness: the router logged the A02 event of a $transfer with the
\* five destinations and then the event of a $dispense with ehr alone.
C27_Witness ==
    /\ Len(message_log) = 2
    /\ message_log[1].routing_key = Key4("pas", "unknown", "adt", "a02")
    /\ Len(message_log[1].destinations) = 5
    /\ message_log[2].routing_key = Key("pharmacy", "medicationdispense", "dispensed")
    /\ message_log[2].destinations = <<"ehr">>
    /\ response.op = "dispense_medication" /\ response.status = 200

\* The MedicationDispense rows stored for prescription request_id
OwnDispenses(request_id) ==
    SelectSeq(db.pharmacy,
              LAMBDA row :
                 /\ row.resource_type = "MedicationDispense"
                 /\ row.data["authorizingPrescription"][1].reference
                       = <<"MedicationRequest", "/", request_id>>)

\* C28: a MedicationRequest is set to status completed only when the
\* number of MedicationDispense resources stored for that same
\* prescription is at least its numberOfRepeatsAllowed + 1; dispenses of
\* other prescriptions do not count.
C28_CompletedOnlyWhenRefillsUsed ==
    \A k \in 1..Len(db.pharmacy) :
        /\ db.pharmacy[k].resource_type = "MedicationRequest"
        /\ db.pharmacy[k].data["status"] = "completed"
        => Len(OwnDispenses(db.pharmacy[k].id))
              >= repeats_allowed(db.pharmacy[k].data) + 1

\* The entries of an encounter's location list with status active
ActiveStays(encounter) ==
    {k \in 1..Len(encounter["location"]) : encounter["location"][k].status = "active"}

\* Handler p's update of an encounter commits in this step.
Flushes(p) ==
    /\ reqs[p].pc = "update_commit"
    /\ reqs'[p].pc = "publish"

\* C30 as stated: at most one location entry of an admitted encounter is
\* active in every state, and each $transfer and $discharge that commits
\* raises the stored versionId of the encounter by exactly 1.
C30_EachChangeRaisesVersion ==
    [][/\ \A k \in 1..Len(db'.pas) :
             db'.pas[k].resource_type = "Encounter"
             => Cardinality(ActiveStays(db'.pas[k].data)) <= 1
       /\ \A p \in Procs :
             Flushes(p) =>
               First(db'.pas, "Encounter", reqs[p].resource_id).version_id
                  = str(int(First(db.pas, "Encounter",
                                  reqs[p].resource_id).version_id) + 1)]_vars

\* C30: an Encounter created by $admit and changed only by $transfer and
\* $discharge has at most one location entry with status active in every
\* state, and each $transfer and $discharge that commits stores versionId
\* str(int(v) + 1), v the versionId its update read: the stored versionId
\* raised by exactly 1 when the requests on the encounter did not overlap.
C30_OneActiveLocation ==
    [][/\ \A k \in 1..Len(db'.pas) :
             db'.pas[k].resource_type = "Encounter"
             => Cardinality(ActiveStays(db'.pas[k].data)) <= 1
       /\ \A p \in Procs :
             Flushes(p) =>
               LET rid == reqs[p].resource_id
                   before == First(db.pas, "Encounter", rid)
                   after == First(db'.pas, "Encounter", rid)
               IN /\ after.version_id = str(int(reqs[p].version_id) + 1)
                  /\ after.data["meta"].versionId = after.version_id
                  /\ rid \notin overlapped =>
                        after.version_id = str(int(before.version_id) + 1)]_vars

\* C30 witness: an encounter was admitted, transferred and discharged, one
\* request after the other: versionId 3, two location entries, none active.
C30_Witness ==
    /\ overlapped = {}
    /\ \E k \in 1..Len(db.pas) :
          /\ db.pas[k].resource_type = "Encounter"
          /\ db.pas[k].version_id = <<"3">>
          /\ db.pas[k].data["status"] = "finished"
          /\ Len(db.pas[k].data["location"]) = 2
          /\ ActiveStays(db.pas[k].data) = {}
    /\ response.op = "discharge_patient" /\ response.status = 200

====
